---- MODULE Spec2Model ----
(***************************************************************************)
(* A model of mcp-raddar: the call dispatcher (server.py), the two tool    *)
(* adapters with their instance registries (tools/*.py), the Sonarr and    *)
(* Radarr clients (clients/*.py) and the retrying HTTP transport           *)
(* (clients/base.py).                                                      *)
(*                                                                         *)
(* Python values are modelled as tagged records (JNull is Python's None),  *)
(* Optional[x] arguments as sequences of length at most one, and strings   *)
(* that the code strips, joins or formats as TLA+ strings or as sequences  *)
(* of string tokens in which "/" is a token of its own.                    *)
(***************************************************************************)
EXTENDS Integers, Sequences, FiniteSets, TLC

VARIABLES
    environ,    \* os.environ: the {SERVICE}_URL_{i} and {SERVICE}_API_KEY_{i} variables
    stdout,     \* what main() printed when load_config raised
    config,     \* the Config object load_config returned
    tools,      \* server.py: sonarr_tools and radarr_tools, each None or a registry
    pc,         \* position of the process: "start" before main(), "exited" after
                \* main() returned, else of the tool invocation: "idle", "http", "done"
    call,       \* the invocation being served: [name, arguments]
    req,        \* the logical request in flight inside session.request
    wire,       \* HTTP attempts of this invocation, in the order they were sent
    outcome,    \* what each finished _make_request returned or raised, in order
    returned,   \* what the client method returned or raised, None before that
    result,     \* the text call_tool returned for this invocation
    sink,       \* the records this invocation wrote to the log, in order
    cancelled,  \* None, or the number of attempts answered when the caller cancelled
    batch,      \* invocations the event loop has received and not yet started
    finished    \* the invocations of the batch that returned, in order of return

vars == <<environ, stdout, config, tools, pc, call, req, wire, outcome, returned, result,
          sink, cancelled, batch, finished>>

----------------------------------------------------------------------------
(* Bounds of the model *)

\* instance ids 1..MaxInstanceId are configurable
MaxInstanceId == 2

(* Program constants *)

\* Config.request_max_retries, and the default of BaseArrClient.__init__
request_max_retries == 3
\* Config.request_timeout
request_timeout == 30
\* Config.request_backoff_factor (0.5 s), in milliseconds
request_backoff_factor == 500
\* discover_instances scans range(1, 101)
ScanLimit == 100

----------------------------------------------------------------------------
(* Python values *)

None == <<>>
Some(x) == <<x>>

JNull == [t |-> "null"]
JBool(b) == [t |-> "bool", v |-> b]
JNum(n) == [t |-> "num", v |-> n]
\* a string value is a sequence of tokens; a leading "/" is a token of its own
JStr(tokens) == [t |-> "str", v |-> tokens]
JText(s) == JStr(IF s = "" THEN <<>> ELSE <<s>>)
JArr(s) == [t |-> "arr", v |-> s]
JObj(f) == [t |-> "obj", v |-> f]
EmptyDict == [k \in {} |-> JNull]

\* isinstance(x, list), isinstance(x, dict)
IsList(x) == x.t = "arr"
IsDict(x) == x.t = "obj"

\* bool(x): None, False, 0, "", [] and {} are falsy
Truthy(x) ==
    CASE x.t = "null" -> FALSE
      [] x.t = "bool" -> x.v
      [] x.t = "num" -> x.v # 0
      [] x.t = "str" -> x.v # <<>>
      [] x.t = "arr" -> Len(x.v) > 0
      [] x.t = "obj" -> DOMAIN x.v # {}

\* dict.get(key, default)
DictGet(d, key, default) == IF key \in DOMAIN d.v THEN d.v[key] ELSE default

\* "".join(tokens)
RECURSIVE Concat(_)
Concat(s) == IF s = <<>> THEN "" ELSE s[1] \o Concat(Tail(s))

\* str(x) for the values that reach an exception message
PyStr(x) ==
    CASE x.t = "null" -> "None"
      [] x.t = "bool" -> IF x.v THEN "True" ELSE "False"
      [] x.t = "num" -> ToString(x.v)
      [] x.t = "str" -> Concat(x.v)
      [] OTHER -> "<repr>"

\* sep.join(str(i) for i in ids)
RECURSIVE JoinInts(_, _)
JoinInts(sep, ids) ==
    IF ids = <<>> THEN ""
    ELSE IF Len(ids) = 1 THEN ToString(ids[1])
    ELSE ToString(ids[1]) \o sep \o JoinInts(sep, Tail(ids))

\* s.rstrip("/") and s.lstrip("/") on token sequences
RECURSIVE RStrip(_)
RStrip(s) ==
    IF s # <<>> /\ s[Len(s)] = "/" THEN RStrip(SubSeq(s, 1, Len(s) - 1)) ELSE s

RECURSIVE LStrip(_)
LStrip(s) == IF s # <<>> /\ s[1] = "/" THEN LStrip(Tail(s)) ELSE s

\* the keys in descending order
RECURSIVE SortedDescending(_)
SortedDescending(S) ==
    IF S = {} THEN <<>>
    ELSE LET top == CHOOSE x \in S : \A y \in S : y <= x
         IN <<top>> \o SortedDescending(S \ {top})

\* min(keys) and sorted(keys)
Min(S) == CHOOSE x \in S : \A y \in S : x <= y

RECURSIVE Sorted(_)
Sorted(S) == IF S = {} THEN <<>> ELSE <<Min(S)>> \o Sorted(S \ {Min(S)})

----------------------------------------------------------------------------
(* Exceptions: [cls, message, status_code] *)

Exc(cls, message) == [cls |-> cls, message |-> message, status_code |-> None]

\* ArrAPIError.__init__(message, status_code)
ArrAPIError(message, status_code) ==
    [cls |-> "ArrAPIError", message |-> message, status_code |-> Some(status_code)]

ArrNetworkError(message) == Exc("ArrNetworkError", message)

\* isinstance(e, ArrClientError)
IsArrClientError(e) ==
    e.cls \in {"ArrClientError", "ArrConfigurationError", "ArrNetworkError", "ArrAPIError"}

Return(v) == [raised |-> FALSE, value |-> v]
Raise(e) == [raised |-> TRUE, exc |-> e]

----------------------------------------------------------------------------
(* What a backend can answer to one HTTP attempt *)

\* A response body: its text, and what json.loads makes of it (None when the
\* text is not JSON). Every text here is shorter than 100 characters, so
\* response.text[:100] is the whole text.
Body(text, json) == [text |-> text, json |-> json]

BodyEmpty == Body("", None)
BodyHtml == Body("<html>Bad Gateway</html>", None)
BodyNull == Body("null", Some(JNull))
BodyNumber == Body("7", Some(JNum(7)))
BodyEmptyArray == Body("[]", Some(JArr(<<>>)))
BodyErrorArray ==
    Body("[{\"errorMessage\": \"Path exists\"}, {\"errorMessage\": \"Second\"}]",
         Some(JArr(<<JObj([errorMessage |-> JText("Path exists")]),
                     JObj([errorMessage |-> JText("Second")])>>)))
BodyArrayNoField ==
    Body("[{\"propertyName\": \"Path\"}]",
         Some(JArr(<<JObj([propertyName |-> JText("Path")])>>)))
BodyArrayOfScalar == Body("[7]", Some(JArr(<<JNum(7)>>)))
BodyMessageObject ==
    Body("{\"message\": \"Invalid id\"}", Some(JObj([message |-> JText("Invalid id")])))
BodyObjectNoField ==
    Body("{\"error\": \"x\"}", Some(JObj([error |-> JText("x")])))
BodyEmptyObject == Body("{}", Some(JObj(EmptyDict)))

\* a lookup or library answer: one record with a relative and an absolute image
ImagePoster == JObj([coverType |-> JText("poster"), url |-> JStr(<<"/", "MediaCover/1/poster.jpg">>)])
ImageFanart == JObj([coverType |-> JText("fanart"), url |-> JText("https://cdn/fanart.jpg")])
MediaRecord ==
    JObj([title |-> JText("Dune"), titleSlug |-> JText("dune"), year |-> JNum(2021),
          images |-> JArr(<<ImagePoster, ImageFanart>>)])
BodyMediaArray == Body("[{\"title\": \"Dune\", ...}]", Some(JArr(<<MediaRecord>>)))
BodyMediaObject == Body("{\"title\": \"Dune\", ...}", Some(MediaRecord))

\* a library answer of two records, the second without an `images` field
MediaRecordPlain == JObj([title |-> JText("Arrival"), titleSlug |-> JText("arrival")])
BodyMediaPair ==
    Body("[{\"title\": \"Dune\", ...}, {\"title\": \"Arrival\", ...}]",
         Some(JArr(<<MediaRecord, MediaRecordPlain>>)))
\* a record whose `images` is null
BodyNullImages ==
    Body("[{\"title\": \"Dune\", \"images\": null}]",
         Some(JArr(<<JObj([title |-> JText("Dune"), images |-> JNull])>>)))
\* a page of history
BodyHistoryPage ==
    Body("{\"records\": [{\"eventType\": \"grabbed\", ...}], \"page\": 2, ...}",
         Some(JObj([records |-> JArr(<<JObj([eventType |-> JText("grabbed"),
                                             sourceTitle |-> JText("Dune.2021.1080p")])>>),
                    page |-> JNum(2), pageSize |-> JNum(5), totalRecords |-> JNum(6)])))

\* One attempt ends in a response or in a failure of the connection
Response(status_code, retry_after, body) ==
    [fault |-> "none", status_code |-> status_code, retry_after |-> retry_after,
     body |-> body]
Fault(kind) ==
    [fault |-> kind, status_code |-> 0, retry_after |-> FALSE, body |-> BodyEmpty]

FaultKinds == {"connection", "connect_timeout", "read_timeout"}

\* the bodies a 400 answer is tried with
ErrorBodies ==
    {BodyEmpty, BodyHtml, BodyNull, BodyNumber, BodyEmptyArray, BodyErrorArray,
     BodyArrayNoField, BodyArrayOfScalar, BodyMessageObject, BodyObjectNoField}

\* the bodies a 2xx answer is tried with
SuccessBodies ==
    {BodyEmpty, BodyHtml, BodyNull, BodyEmptyArray, BodyMediaArray, BodyMediaObject}

PlainStatuses == {401, 403, 404, 413, 429, 500, 501, 502, 503, 504}

Replies ==
    {Fault(k) : k \in FaultKinds}
    \cup {Response(200, FALSE, b) : b \in SuccessBodies}
    \cup {Response(204, FALSE, BodyEmpty), Response(304, FALSE, BodyEmpty)}
    \cup {Response(400, FALSE, b) : b \in ErrorBodies}
    \cup {Response(s, FALSE, BodyHtml) : s \in PlainStatuses}
    \cup {Response(413, TRUE, BodyHtml)}

\* the answers tried where the dispatcher and the registries are explored
CoarseReplies ==
    {Fault("connection"),
     Response(200, FALSE, BodyMediaArray), Response(200, FALSE, BodyEmptyArray),
     Response(200, FALSE, BodyMediaObject),
     Response(404, FALSE, BodyHtml), Response(503, FALSE, BodyHtml)}

\* the answers tried where the client and tool methods are explored
AdapterBodies ==
    {BodyEmpty, BodyNull, BodyNumber, BodyEmptyArray, BodyEmptyObject, BodyArrayOfScalar,
     BodyMediaArray, BodyMediaPair, BodyMediaObject, BodyNullImages, BodyHistoryPage}

AdapterReplies ==
    {Response(200, FALSE, b) : b \in AdapterBodies}
    \cup {Response(404, FALSE, BodyHtml), Fault("connection")}

----------------------------------------------------------------------------
(* Configuration: config.py *)

Services == {"sonarr", "radarr"}

\* the service name as the adapters print it
Label(svc) == IF svc = "sonarr" THEN "Sonarr" ELSE "Radarr"

\* service_type.upper()
Upper(svc) == IF svc = "sonarr" THEN "SONARR" ELSE "RADARR"

\* The values of {SERVICE}_URL_{i} and {SERVICE}_API_KEY_{i}. An API key is
\* the sequence of its characters, so that len(api_key) is its length.
EnvUrl(svc, i, slashes) ==
    <<"http://" \o svc \o "-" \o ToString(i) \o ":7878">> \o [k \in 1..slashes |-> "/"]
EnvApiKey(svc, i) ==
    (IF svc = "sonarr" THEN <<"s", "o", "n">> ELSE <<"r", "a", "d">>)
        \o <<"a", "r", "r", "-", "a", "p", "i", "-", "k", "e", "y", "-", ToString(i)>>
\* a key of nine characters
ShortApiKey == <<"s", "h", "o", "r", "t", "-", "k", "e", "y">>

\* InstanceConfig with its validators (validate_url strips trailing slashes)
InstanceConfig(url, api_key) == [url |-> RStrip(url), api_key |-> api_key]

\* what the validators of InstanceConfig(url=url, api_key=api_key) raise, None
\* when both accept
InstanceConfigError(url, api_key) ==
    IF url = <<>> THEN Some("URL cannot be empty")
    ELSE IF api_key = <<>> \/ Len(api_key) < 10
    THEN Some("API key must be at least 10 characters")
    ELSE None

\* os.getenv(key): None when the variable is not set
Getenv(env, svc, var, i) == IF i \in DOMAIN env[svc] THEN env[svc][i][var] ELSE None

\* `if url`: None and the empty string are falsy
IsSet(v) == v # None /\ v[1] # <<>>

\* the ValueError for an id with one variable of the pair only
MissingPairError(svc, i, url) ==
    LET url_key == Upper(svc) \o "_URL_" \o ToString(i)
        api_key_key == Upper(svc) \o "_API_KEY_" \o ToString(i)
    IN Exc("ValueError",
           "Found " \o (IF IsSet(url) THEN url_key ELSE api_key_key) \o " but "
               \o (IF IsSet(url) THEN api_key_key ELSE url_key) \o " is missing. "
               \o "Both URL and API key must be provided for " \o svc
               \o " instance " \o ToString(i) \o ".")

\* the ValueError for a pair InstanceConfig rejects (pydantic's rendering of
\* the validation error is shortened to the validator's message)
InvalidInstanceError(svc, i, message) ==
    Exc("ValueError",
        "Invalid configuration for " \o svc \o " instance " \o ToString(i) \o ": " \o message)

\* the loop of discover_instances from id i on
RECURSIVE Scan(_, _, _, _)
Scan(env, svc, i, instances) ==
    IF i > ScanLimit THEN Return(instances)
    ELSE LET url == Getenv(env, svc, "url", i)
             api_key == Getenv(env, svc, "api_key", i)
         IN IF IsSet(url) /\ IsSet(api_key)
            THEN IF InstanceConfigError(url[1], api_key[1]) # None
                 THEN Raise(InvalidInstanceError(svc, i,
                                InstanceConfigError(url[1], api_key[1])[1]))
                 ELSE Scan(env, svc, i + 1,
                           (i :> InstanceConfig(url[1], api_key[1])) @@ instances)
            ELSE IF IsSet(url) \/ IsSet(api_key)
            THEN Raise(MissingPairError(svc, i, url))
            ELSE IF i > 1 THEN Return(instances)
            ELSE Scan(env, svc, i + 1, instances)

\* a discovery that registers every complete pair, whatever ids are missing
\* before it
DiscoverInstancesPastGaps(env, svc) ==
    LET bad == {i \in DOMAIN env[svc] :
                  IsSet(Getenv(env, svc, "url", i)) # IsSet(Getenv(env, svc, "api_key", i))}
        ok == {i \in DOMAIN env[svc] :
                  IsSet(Getenv(env, svc, "url", i)) /\ IsSet(Getenv(env, svc, "api_key", i))}
    IN IF bad # {}
       THEN Raise(MissingPairError(svc, Min(bad), Getenv(env, svc, "url", Min(bad))))
       ELSE Return([i \in ok |-> InstanceConfig(Getenv(env, svc, "url", i)[1],
                                                Getenv(env, svc, "api_key", i)[1])])

\* a discovery that leaves out the pairs it cannot use and returns the others
DiscoverInstancesSkippingInvalid(env, svc) ==
    LET usable == {i \in DOMAIN env[svc] :
                     /\ IsSet(Getenv(env, svc, "url", i))
                     /\ IsSet(Getenv(env, svc, "api_key", i))
                     /\ InstanceConfigError(Getenv(env, svc, "url", i)[1],
                                            Getenv(env, svc, "api_key", i)[1]) = None}
    IN Return([i \in usable |-> InstanceConfig(Getenv(env, svc, "url", i)[1],
                                               Getenv(env, svc, "api_key", i)[1])])

\* discover_instances(service_type)
DiscoverInstances(env, svc) == Scan(env, svc, 1, <<>>)

\* The id sets discover_instances can return: it scans 1, 2, ... and stops at
\* the first missing id above 1, so the ids are 1..n or 2..n, or none
KeySets == {a..b : a \in {1, 2}, b \in 0..MaxInstanceId}

Instances(svc, ids, slashes) ==
    [i \in ids |-> InstanceConfig(EnvUrl(svc, i, slashes), EnvApiKey(svc, i))]

\* the Config object of load_config for these instances
Config(sonarr_ids, radarr_ids, slashes) ==
    [sonarr_instances |-> Instances("sonarr", sonarr_ids, slashes),
     radarr_instances |-> Instances("radarr", radarr_ids, slashes),
     request_timeout |-> request_timeout,
     request_max_retries |-> request_max_retries,
     request_backoff_factor |-> request_backoff_factor]

\* the ValueError of load_config when nothing was discovered
NoInstancesError ==
    Exc("ValueError",
        "No Sonarr or Radarr instances configured. "
            \o "Please set at least one SONARR_URL_1/SONARR_API_KEY_1 "
            \o "or RADARR_URL_1/RADARR_API_KEY_1 pair.")

\* a load_config that accepts an environment with no instance
LoadConfigWithoutInstanceCheck(env) ==
    LET sonarr_instances == DiscoverInstances(env, "sonarr")
        radarr_instances == DiscoverInstances(env, "radarr")
    IN IF sonarr_instances.raised THEN sonarr_instances
       ELSE IF radarr_instances.raised THEN radarr_instances
       ELSE Return([sonarr_instances |-> sonarr_instances.value,
                    radarr_instances |-> radarr_instances.value,
                    request_timeout |-> request_timeout,
                    request_max_retries |-> request_max_retries,
                    request_backoff_factor |-> request_backoff_factor])

\* load_config(), the REQUEST_* variables left at their defaults
LoadConfig(env) ==
    LET sonarr_instances == DiscoverInstances(env, "sonarr")
        radarr_instances == DiscoverInstances(env, "radarr")
    IN IF sonarr_instances.raised THEN sonarr_instances
       ELSE IF radarr_instances.raised THEN radarr_instances
       ELSE IF DOMAIN sonarr_instances.value = {} /\ DOMAIN radarr_instances.value = {}
       THEN Raise(NoInstancesError)
       ELSE Return([sonarr_instances |-> sonarr_instances.value,
                    radarr_instances |-> radarr_instances.value,
                    request_timeout |-> request_timeout,
                    request_max_retries |-> request_max_retries,
                    request_backoff_factor |-> request_backoff_factor])

InstancesOf(cfg, svc) ==
    IF svc = "sonarr" THEN cfg.sonarr_instances ELSE cfg.radarr_instances

----------------------------------------------------------------------------
(* Transport client construction: clients/base.py *)

StatusForcelist == {429, 500, 502, 503, 504}
\* urllib3's default: the idempotent methods only
AllowedMethodsIdempotent == {"HEAD", "GET", "PUT", "DELETE", "OPTIONS", "TRACE"}
AllowedMethods == {"HEAD", "GET", "POST", "PUT", "DELETE", "OPTIONS"}
\* urllib3's Retry.RETRY_AFTER_STATUS_CODES, honoured because
\* respect_retry_after_header is left at its default
RetryAfterStatusCodes == {413, 429, 503}

\* the session with raise_on_status left at urllib3's default
CreateSessionRaiseOnStatus(api_key, max_retries, backoff_factor) ==
    [total |-> max_retries,
     backoff_factor |-> backoff_factor,
     status_forcelist |-> StatusForcelist,
     allowed_methods |-> AllowedMethods,
     raise_on_status |-> TRUE,
     headers |-> [XApiKey |-> api_key, ContentType |-> "application/json",
                  Accept |-> "application/json"]]

\* BaseArrClient._create_session: the Retry strategy mounted on the session
CreateSession(api_key, max_retries, backoff_factor) ==
    [total |-> max_retries,
     backoff_factor |-> backoff_factor,
     status_forcelist |-> StatusForcelist,
     allowed_methods |-> AllowedMethods,
     raise_on_status |-> FALSE,
     headers |-> [XApiKey |-> api_key, ContentType |-> "application/json",
                  Accept |-> "application/json"]]

\* BaseArrClient.__init__
BaseArrClient(base_url, api_key, timeout, max_retries, backoff_factor) ==
    [base_url |-> RStrip(base_url),
     api_key |-> api_key,
     timeout |-> timeout,
     session |-> CreateSession(api_key, max_retries, backoff_factor)]

\* every client built from the configuration of the first instance
ToolsInitFirstInstanceOnly(cfg, svc) ==
    [service |-> svc,
     clients |-> [i \in DOMAIN InstancesOf(cfg, svc) |->
                    LET first == CHOOSE j \in DOMAIN InstancesOf(cfg, svc) :
                                    \A k \in DOMAIN InstancesOf(cfg, svc) : j <= k
                    IN BaseArrClient(InstancesOf(cfg, svc)[first].url,
                                     InstancesOf(cfg, svc)[first].api_key,
                                     cfg.request_timeout,
                                     cfg.request_max_retries,
                                     cfg.request_backoff_factor)]]

\* SonarrTools.__init__ / RadarrTools.__init__: one client per configured id
ToolsInit(cfg, svc) ==
    [service |-> svc,
     clients |-> [i \in DOMAIN InstancesOf(cfg, svc) |->
                    BaseArrClient(InstancesOf(cfg, svc)[i].url,
                                  InstancesOf(cfg, svc)[i].api_key,
                                  cfg.request_timeout,
                                  cfg.request_max_retries,
                                  cfg.request_backoff_factor)]]

\* server.py main: SonarrTools(config) if config.sonarr_instances else None
MainTools(cfg) ==
    [svc \in Services |->
        IF DOMAIN InstancesOf(cfg, svc) # {} THEN Some(ToolsInit(cfg, svc)) ELSE None]

----------------------------------------------------------------------------
(* Instance registry: SonarrTools._get_client / RadarrTools._get_client *)

\* the default the tool schema advertises: instance 1
EffectiveIdDefaultOne(t, instance_id) ==
    IF instance_id = None THEN 1 ELSE instance_id[1]

\* the id the call is resolved to: min(self.clients.keys()) when omitted
EffectiveId(t, instance_id) ==
    IF instance_id = None THEN Min(DOMAIN t.clients) ELSE instance_id[1]

\* the text of the ValueError for an id that is not registered
NotFoundMessage(t, id) ==
    Label(t.service) \o " instance " \o ToString(id) \o " not found. "
        \o "Available instances: " \o JoinInts(", ", Sorted(DOMAIN t.clients))

\* _get_client: Return(id of the client) or Raise(ValueError)
GetClient(t, instance_id) ==
    IF instance_id = None /\ DOMAIN t.clients = {}
    THEN Raise(Exc("ValueError", "min() arg is an empty sequence"))
    ELSE IF EffectiveId(t, instance_id) \notin DOMAIN t.clients
    THEN Raise(Exc("ValueError", NotFoundMessage(t, EffectiveId(t, instance_id))))
    ELSE Return(EffectiveId(t, instance_id))

----------------------------------------------------------------------------
(* One logical request: BaseArrClient._make_request over session.request *)

\* url = f"{self.base_url}/{endpoint.lstrip('/')}"
Url(client, endpoint) == Concat(client.base_url \o <<"/">> \o LStrip(endpoint))

\* Retry.is_retry(method, status_code, has_retry_after) with `total` retries left
IsRetry(session, method, total, status_code, has_retry_after) ==
    /\ method \in session.allowed_methods
    /\ \/ status_code \in session.status_forcelist
       \/ /\ total # 0
          /\ has_retry_after
          /\ status_code \in RetryAfterStatusCodes

\* a budget that is never spent
ExhaustedNever(total) == FALSE

\* the budget read as a number of attempts, the first one included
ExhaustedCountingAttempts(total) == total - 1 <= 0

\* Retry.increment() followed by is_exhausted(): `total` counts the retries
\* that remain, so the budget is spent when one more than `total` is asked for
Exhausted(total) == total - 1 < 0

\* a session that retries statuses but gives up on the first failed connection
AttemptDecisionNoConnectionRetry(session, method, total, reply) ==
    IF reply.fault # "none" THEN "raise"
    ELSE IF IsRetry(session, method, total, reply.status_code, reply.retry_after)
            /\ ~(total - 1 < 0)
    THEN "retry"
    ELSE "return"

\* What the session does with the answer to one attempt, `total` retries left:
\* "retry" (sleep and send again), "return" the response, or "raise"
AttemptDecision(session, method, total, reply) ==
    IF reply.fault # "none"
    THEN IF method \in session.allowed_methods /\ ~Exhausted(total)
         THEN "retry" ELSE "raise"
    ELSE IF IsRetry(session, method, total, reply.status_code, reply.retry_after)
    THEN IF ~Exhausted(total) THEN "retry"
         ELSE IF session.raise_on_status THEN "raise" ELSE "return"
    ELSE "return"

\* the backoff read as backoff_factor * 2 ** (errors - 1) from the first retry on
GetBackoffTimeFromFirstRetry(session, errors) ==
    Min({120000, session.backoff_factor * 2 ^ (errors - 1)})

\* Retry.get_backoff_time() after `errors` consecutive failed attempts, in
\* milliseconds: nothing before the first retry, then
\* backoff_factor * 2 ** (errors - 1), at most Retry.DEFAULT_BACKOFF_MAX (120 s)
GetBackoffTime(session, errors) ==
    IF errors <= 1 THEN 0
    ELSE Min({120000, session.backoff_factor * 2 ^ (errors - 1)})

\* no sleep before the first attempt of a request
NoSleep == [cause |-> "none", backoff |-> 0]

\* Retry.sleep(response) before a retry: for the time the Retry-After header
\* of the response names when it has one, for the backoff time otherwise
Sleep(session, errors, reply) ==
    IF reply.fault = "none" /\ reply.retry_after
    THEN [cause |-> "retry_after", backoff |-> 0]
    ELSE [cause |-> "backoff", backoff |-> GetBackoffTime(session, errors)]

\* the requests exception HTTPAdapter.send raises for a failed connection
RequestsException(fault) ==
    CASE fault = "connect_timeout" -> "ConnectTimeout"
      [] fault = "none" -> "RetryError"
      [] OTHER -> "ConnectionError"

\* the except clauses of _make_request, in their order
NetworkOutcome(client, url, requests_exc, text) ==
    IF requests_exc \in {"ConnectTimeout", "ReadTimeout", "Timeout"}
    THEN Raise(ArrNetworkError("Request timeout: " \o url))
    ELSE IF requests_exc = "ConnectionError"
    THEN Raise(ArrNetworkError("Failed to connect to " \o Concat(client.base_url)))
    ELSE Raise(ArrNetworkError("Request failed: " \o text))

\* the message taken from the last element of the array instead of the first
BadRequestMessageLastElement(body) ==
    IF body.json = None THEN "Bad request"
    ELSE LET error_data == body.json[1] IN
         IF IsList(error_data) /\ Truthy(error_data)
         THEN IF IsDict(error_data.v[Len(error_data.v)])
              THEN PyStr(DictGet(error_data.v[Len(error_data.v)], "errorMessage",
                                 JText("Bad request")))
              ELSE "Bad request"
         ELSE IF IsDict(error_data)
         THEN PyStr(DictGet(error_data, "message", JText("Bad request")))
         ELSE "Bad request"

\* the message of the ArrAPIError raised for a 400 response
BadRequestMessage(body) ==
    IF body.json = None THEN "Bad request"
    ELSE LET error_data == body.json[1] IN
         IF IsList(error_data) /\ Truthy(error_data)
         THEN IF IsDict(error_data.v[1])
              THEN PyStr(DictGet(error_data.v[1], "errorMessage", JText("Bad request")))
              ELSE "Bad request"
         ELSE IF IsDict(error_data)
         THEN PyStr(DictGet(error_data, "message", JText("Bad request")))
         ELSE "Bad request"

\* success read as "a 2xx status"
ResponseOkOnly2xx(response) == response.status_code \in 200..299

\* response.ok: no 4xx or 5xx status
ResponseOk(response) == response.status_code < 400

\* response.json() if response.text else None; response.json() raises
\* requests.exceptions.JSONDecodeError, a RequestException, on invalid JSON
ParseBody(client, url, response) ==
    IF response.body.text = "" THEN Return(JNull)
    ELSE IF response.body.json = None
    THEN NetworkOutcome(client, url, "JSONDecodeError",
                        "Expecting value: line 1 column 1 (char 0)")
    ELSE Return(response.body.json[1])

\* _make_request from "Handle different status codes" on, for the response
\* session.request returned
HandleResponse(client, endpoint, url, response) ==
    IF response.status_code = 401
    THEN Raise(ArrAPIError("Authentication failed. Please check your API key.", 401))
    ELSE IF response.status_code = 404
    THEN Raise(ArrAPIError("Resource not found: " \o Concat(endpoint), 404))
    ELSE IF response.status_code = 400
    THEN Raise(ArrAPIError(BadRequestMessage(response.body), 400))
    ELSE IF response.status_code >= 500
    THEN Raise(ArrAPIError("Server error: " \o ToString(response.status_code)
                               \o " - " \o response.body.text,
                           response.status_code))
    ELSE IF ~ResponseOk(response)
    THEN Raise(ArrAPIError("API request failed: " \o ToString(response.status_code)
                               \o " - " \o response.body.text,
                           response.status_code))
    ELSE ParseBody(client, url, response)

\* what _make_request returns or raises once session.request is over
MakeRequestOutcome(client, method, endpoint, total, reply) ==
    IF AttemptDecision(client.session, method, total, reply) = "raise"
    THEN NetworkOutcome(client, Url(client, endpoint), RequestsException(reply.fault),
                        "Max retries exceeded")
    ELSE HandleResponse(client, endpoint, Url(client, endpoint), reply)

\* log_http_call(method, url, params=params, data=json_data)
LogHttpCall(method, url, params, data) ==
    [record |-> "request", method |-> method, url |-> url, params |-> params,
     data |-> data]

\* log_http_response(url, response.status_code, response_data, duration)
LogHttpResponse(url, status_code, response_data) ==
    [record |-> "response", url |-> url, status_code |-> status_code,
     data |-> response_data]

\* logger.error(...) of the except clauses of _make_request
LogError(url, requests_exc, text) ==
    [record |-> "error",
     text |-> IF requests_exc \in {"ConnectTimeout", "ReadTimeout", "Timeout"}
              THEN "Request timeout: " \o url
              ELSE IF requests_exc = "ConnectionError"
              THEN "Connection error: " \o url
              ELSE "Request failed: " \o text]

\* the records _make_request writes once session.request is over: the response
\* record after the status checks and the parse, or the error record of the
\* except clause; nothing when it raises ArrAPIError
MakeRequestLog(client, method, endpoint, total, reply) ==
    LET url == Url(client, endpoint) IN
    IF AttemptDecision(client.session, method, total, reply) = "raise"
    THEN <<LogError(url, RequestsException(reply.fault), "Max retries exceeded")>>
    ELSE LET out == HandleResponse(client, endpoint, url, reply) IN
         IF ~out.raised THEN <<LogHttpResponse(url, reply.status_code, out.value)>>
         ELSE IF out.exc.cls = "ArrNetworkError"
         THEN <<LogError(url, "JSONDecodeError", "Expecting value: line 1 column 1 (char 0)")>>
         ELSE <<>>

----------------------------------------------------------------------------
(* Sonarr and Radarr clients: clients/sonarr.py, clients/radarr.py *)

EmptyList == JArr(<<>>)

\* "series" for Sonarr, "movie" for Radarr: the only difference in the paths
Noun(svc) == IF svc = "sonarr" THEN "series" ELSE "movie"
IdPrefix(svc) == IF svc = "sonarr" THEN "tvdb:" ELSE "tmdb:"
IdArgument(svc) == IF svc = "sonarr" THEN "tvdb_id" ELSE "tmdb_id"

Endpoint(path) == <<"/", path>>

HttpRequest(method, endpoint, params, json_data) ==
    [method |-> method, endpoint |-> endpoint, params |-> params, json_data |-> json_data]

\* BaseArrClient.get and BaseArrClient.post
Get(endpoint, params) == HttpRequest("GET", endpoint, params, JNull)
Post(endpoint, json_data) == HttpRequest("POST", endpoint, JNull, json_data)

\* type(x).__name__
PyType(x) ==
    CASE x.t = "null" -> "NoneType"
      [] x.t = "bool" -> "bool"
      [] x.t = "num" -> "int"
      [] x.t = "str" -> "str"
      [] x.t = "arr" -> "list"
      [] x.t = "obj" -> "dict"

\* the exceptions of x.get(...), x.startswith(...), `for e in x`, len(x) and
\* `key in x` on a value of the wrong type
NoAttr(x, name) ==
    Exc("AttributeError", "'" \o PyType(x) \o "' object has no attribute '" \o name \o "'")
NoGet(x) == NoAttr(x, "get")
NotIterable(x) == Exc("TypeError", "'" \o PyType(x) \o "' object is not iterable")
NoLen(x) == Exc("TypeError", "object of type '" \o PyType(x) \o "' has no len()")
NoContains(x) == Exc("TypeError", "argument of type '" \o PyType(x) \o "' is not iterable")

\* the first exception of a sequence of optional exceptions, None without one
FirstSome(errs) ==
    IF \E k \in 1..Len(errs) : errs[k] # None
    THEN errs[CHOOSE k \in 1..Len(errs) :
                 errs[k] # None /\ \A j \in 1..(k - 1) : errs[j] = None]
    ELSE None

\* the elements of a list, none for another value
Items(data) == IF IsList(data) THEN data.v ELSE <<>>

\* what `for e in data` yields from a dict (its keys) or a str (its characters)
AString == JText("k")

\* `for e in data: <body>`: the exception that ends the loop, where errs[k] is
\* the exception of the body on the k-th element of a list and on_string the
\* exception of the body on a string
ForEachError(data, errs, on_string) ==
    CASE data.t \in {"null", "bool", "num"} -> Some(NotIterable(data))
      [] data.t = "arr" -> FirstSome(errs)
      [] OTHER -> IF Truthy(data) THEN on_string ELSE None

\* url.startswith("/")
StartsWithSlash(tokens) == tokens # <<>> /\ tokens[1] = "/"

\* a rewrite that prefixes the base URL to every url, absolute ones too
AbsoluteUrlAlwaysPrefixed(client, url) == JStr(client.base_url \o url.v)

\* f"{self.base_url}{url}" for a relative url, the url itself otherwise
AbsoluteUrl(client, url) ==
    IF StartsWithSlash(url.v) THEN JStr(client.base_url \o url.v) ELSE url

\* the body of the loop of _transform_images on one image: its exception
ImageError(img) ==
    IF ~IsDict(img) THEN Some(NoGet(img))
    ELSE IF DictGet(img, "url", JText("")).t # "str"
    THEN Some(NoAttr(DictGet(img, "url", JText("")), "startswith"))
    ELSE None

\* the exception _transform_images(item) raises, None when it returns
ImagesError(item) ==
    IF ~IsDict(item) THEN Some(NoGet(item))
    ELSE LET images == Items(DictGet(item, "images", EmptyList)) IN
         ForEachError(DictGet(item, "images", EmptyList),
                      [k \in 1..Len(images) |-> ImageError(images[k])],
                      ImageError(AString))

\* SonarrClient._transform_images / RadarrClient._transform_images, when it returns
TransformImages(client, item) ==
    LET images == Items(DictGet(item, "images", EmptyList))
    IN JArr([k \in 1..Len(images) |->
               JObj([type |-> DictGet(images[k], "coverType", JText("unknown")),
                     url |-> AbsoluteUrl(client, DictGet(images[k], "url", JText("")))])])

\* item["images"] = self._transform_images(item)
WithImages(client, item) ==
    JObj(("images" :> TransformImages(client, item)) @@ item.v)

\* for item in items: item["images"] = self._transform_images(item)
TransformAll(client, items) ==
    LET err == FirstSome([k \in 1..Len(items.v) |-> ImagesError(items.v[k])]) IN
    IF err # None THEN Raise(err[1])
    ELSE Return(JArr([k \in 1..Len(items.v) |-> WithImages(client, items.v[k])]))

\* search_series / search_movies, after the GET returned `results`
SearchResults(client, results) ==
    TransformAll(client,
        IF ~IsList(results)
        THEN IF Truthy(results) THEN JArr(<<results>>) ELSE EmptyList
        ELSE results)

\* list_series / list_movies, after the GET returned
ListResults(client, items) ==
    TransformAll(client, IF ~IsList(items) THEN EmptyList ELSE items)

\* a fallback page that reports the default page size, not the requested one
HistoryResultsDefaultPageSize(history, page_size) ==
    IF Truthy(history) THEN history
    ELSE JObj([records |-> EmptyList, page |-> JNum(1), pageSize |-> JNum(20),
               totalRecords |-> JNum(0)])

\* get_history, after the GET returned
HistoryResults(history, page_size) ==
    IF Truthy(history) THEN history
    ELSE JObj([records |-> EmptyList, page |-> JNum(1), pageSize |-> page_size,
               totalRecords |-> JNum(0)])

HistoryParams(page, page_size) ==
    JObj([page |-> page, pageSize |-> page_size, sortKey |-> JText("date"),
          sortDirection |-> JText("descending")])

LookupRequest(svc, term) ==
    Get(Endpoint("api/v3/" \o Noun(svc) \o "/lookup"), JObj([term |-> term]))

\* the payload add_series / add_movie builds from the first lookup result
AddPayload(svc, a, data) ==
    IF svc = "sonarr"
    THEN JObj([tvdbId |-> a.id,
               title |-> DictGet(data, "title", JNull),
               qualityProfileId |-> a.quality_profile_id,
               titleSlug |-> DictGet(data, "titleSlug", JNull),
               images |-> DictGet(data, "images", EmptyList),
               seasons |-> DictGet(data, "seasons", EmptyList),
               rootFolderPath |-> a.root_folder_path,
               monitored |-> JBool(TRUE),
               seasonFolder |-> JBool(TRUE),
               addOptions |-> JObj([monitor |-> a.monitor,
                                    searchForMissingEpisodes |-> a.search])])
    ELSE JObj([tmdbId |-> a.id,
               title |-> DictGet(data, "title", JNull),
               qualityProfileId |-> a.quality_profile_id,
               titleSlug |-> DictGet(data, "titleSlug", JNull),
               images |-> DictGet(data, "images", EmptyList),
               year |-> DictGet(data, "year", JNull),
               rootFolderPath |-> a.root_folder_path,
               monitored |-> a.monitor,
               addOptions |-> JObj([searchForMovie |-> a.search])])

\* an add that posts a payload built from nothing when the lookup found nothing
AddAfterLookupSynthesized(svc, a, lookup_results) ==
    Return(Post(Endpoint("api/v3/" \o Noun(svc)),
                AddPayload(svc, a, IF Truthy(lookup_results) THEN lookup_results.v[1]
                                   ELSE JObj(EmptyDict))))

\* add_series / add_movie, after the lookup: the ValueError or the POST
AddAfterLookup(svc, a, lookup_results) ==
    IF ~Truthy(lookup_results)
    THEN Raise(Exc("ValueError",
                   (IF svc = "sonarr" THEN "Series with TVDB ID " ELSE "Movie with TMDB ID ")
                       \o PyStr(a.id) \o " not found"))
    ELSE Return(Post(Endpoint("api/v3/" \o Noun(svc)),
                     AddPayload(svc, a, lookup_results.v[1])))

\* an add that returns the created item as the backend sent it
AddResultUntransformed(client, added) == Return(added)

\* `"images" in result`: a key of a dict, an element of a list (a substring
\* of a str, here a token of it)
Contains(x, key) ==
    CASE x.t = "obj" -> key \in DOMAIN x.v
      [] x.t = "arr" -> \E k \in 1..Len(x.v) : x.v[k].t = "str" /\ x.v[k] = JText(key)
      [] OTHER -> \E k \in 1..Len(x.v) : x.v[k] = key

\* add_series / add_movie, after the POST returned `result`
AddResult(client, added) ==
    IF ~Truthy(added) THEN Return(added)
    ELSE IF added.t \in {"num", "bool"} THEN Raise(NoContains(added))
    ELSE IF ~Contains(added, "images") THEN Return(added)
    ELSE IF ImagesError(added) # None THEN Raise(ImagesError(added)[1])
    ELSE Return(WithImages(client, added))

\* The methods SonarrClient and RadarrClient define. The adapters also call
\* client.get_queue, client.get_calendar and client.get_system_status, which
\* neither client class nor BaseArrClient defines.
ClientMethods ==
    {"search", "list", "get_history", "add", "get_quality_profiles", "get_root_folders"}

\* the AttributeError of client.<op> for a method the class does not define
NoAttribute(svc, op) ==
    Exc("AttributeError",
        "'" \o Label(svc) \o "Client' object has no attribute '" \o op \o "'")

----------------------------------------------------------------------------
(* Tool adapters: tools/sonarr_tools.py, tools/radarr_tools.py *)

Ops ==
    {"search", "list", "get_history", "add", "get_quality_profiles",
     "get_root_folders", "get_queue", "get_calendar", "get_system_status"}

\* the name call_tool knows each operation by
ToolName(svc, op) ==
    CASE op = "search" -> svc \o "_search_" \o (IF svc = "sonarr" THEN "series" ELSE "movies")
      [] op = "list" -> svc \o "_list_" \o (IF svc = "sonarr" THEN "series" ELSE "movies")
      [] op = "add" -> svc \o "_add_" \o Noun(svc)
      [] OTHER -> svc \o "_" \o op

DeclaredTools == {<<svc, op>> : svc \in Services, op \in Ops}

\* arguments[key] for the keys call_tool subscripts
RequiredArguments(svc, op) ==
    CASE op = "search" -> <<"query">>
      [] op = "add" -> <<IdArgument(svc), "quality_profile_id", "root_folder_path">>
      [] OTHER -> <<>>

\* arguments.get(key, default) and arguments.get(key)
ArgGet(arguments, key, default) ==
    IF key \in DOMAIN arguments THEN arguments[key] ELSE default
ArgOptional(arguments, key) ==
    IF key \in DOMAIN arguments /\ arguments[key].t # "null"
    THEN Some(arguments[key]) ELSE None

\* instance_id=arguments.get("instance_id")
ArgInstanceId(arguments) ==
    IF ArgOptional(arguments, "instance_id") = None THEN None
    ELSE Some(arguments["instance_id"].v)

\* the keyword arguments call_tool passes to add_series / add_movie
AddArguments(svc, arguments) ==
    [id |-> arguments[IdArgument(svc)],
     quality_profile_id |-> arguments["quality_profile_id"],
     root_folder_path |-> arguments["root_folder_path"],
     monitor |-> ArgGet(arguments, "monitor",
                        IF svc = "sonarr" THEN JText("all") ELSE JBool(TRUE)),
     search |-> ArgGet(arguments,
                       IF svc = "sonarr" THEN "search_for_missing" ELSE "search_for_movie",
                       JBool(TRUE))]

\* the first request the client method of `op` sends
FirstRequest(svc, op, arguments) ==
    CASE op = "search" -> LookupRequest(svc, arguments["query"])
      [] op = "list" -> Get(Endpoint("api/v3/" \o Noun(svc)), JNull)
      [] op = "get_history" ->
            Get(Endpoint("api/v3/history"),
                HistoryParams(ArgGet(arguments, "page", JNum(1)),
                              ArgGet(arguments, "page_size", JNum(20))))
      [] op = "add" ->
            LookupRequest(svc, JStr(<<IdPrefix(svc), PyStr(arguments[IdArgument(svc)])>>))
      [] op = "get_quality_profiles" -> Get(Endpoint("api/v3/qualityprofile"), JNull)
      [] op = "get_root_folders" -> Get(Endpoint("api/v3/rootfolder"), JNull)

\* the results a tool method returns
Text(s) == [kind |-> "text", text |-> s]
Json(v) == [kind |-> "json", value |-> v]

\* except clauses that swallow a client error and answer an empty list
ToolCatchSwallowsClientError(op, e) ==
    IF op = "add" /\ e.cls = "ValueError"
    THEN Text("Validation error: " \o e.message)
    ELSE IF IsArrClientError(e)
    THEN Json(EmptyList)
    ELSE Text("Unexpected error: " \o e.message)

\* the except clauses of a tool method (add_* catches ValueError first)
ToolCatch(op, e) ==
    IF op = "add" /\ e.cls = "ValueError"
    THEN Text("Validation error: " \o e.message)
    ELSE IF IsArrClientError(e)
    THEN Text("Error: " \o e.message)
    ELSE Text("Unexpected error: " \o e.message)

\* {key: item.get(key) for key in fields}
Pick(item, fields) == [f \in fields |-> DictGet(item, f, JNull)]

EmptyObject == JObj(EmptyDict)

\* len(x) of a list or a dict (of a str, the number of its tokens)
PyLen(x) == IF x.t = "obj" THEN Cardinality(DOMAIN x.v) ELSE Len(x.v)

\* f"{n:02d}"
TwoDigits(n) ==
    LET i == IF n.t = "bool" THEN (IF n.v THEN 1 ELSE 0) ELSE n.v IN
    IF 0 <= i /\ i < 10 THEN "0" \o ToString(i) ELSE ToString(i)

\* the exception of f"{x:02d}", None for an int
TwoDigitsError(x) ==
    CASE x.t \in {"num", "bool"} -> None
      [] x.t = "str" ->
            Some(Exc("ValueError", "Unknown format code 'd' for object of type 'str'"))
      [] OTHER ->
            Some(Exc("TypeError",
                     "unsupported format string passed to " \o PyType(x) \o ".__format__"))

\* the dictionary search_series / search_movies builds from one result
SearchItemError(svc, item) ==
    IF ~IsDict(item) THEN Some(NoGet(item))
    ELSE IF svc = "sonarr" /\ DictGet(item, "seasons", EmptyList).t \in {"null", "bool", "num"}
    THEN Some(NoLen(DictGet(item, "seasons", EmptyList)))
    ELSE None

FormattedSearchItem(svc, item) ==
    IF svc = "sonarr"
    THEN JObj(("images" :> DictGet(item, "images", EmptyList))
              @@ ("seasons" :> JNum(PyLen(DictGet(item, "seasons", EmptyList))))
              @@ Pick(item, {"title", "year", "tvdbId", "overview", "status", "network"}))
    ELSE JObj(("images" :> DictGet(item, "images", EmptyList))
              @@ Pick(item, {"title", "year", "tmdbId", "imdbId", "overview", "status",
                             "runtime", "studio"}))

\* the dictionary list_series / list_movies builds from one library entry
ListItemError(svc, item) ==
    IF ~IsDict(item) THEN Some(NoGet(item))
    ELSE IF svc = "sonarr" /\ ~IsDict(DictGet(item, "statistics", EmptyObject))
    THEN Some(NoGet(DictGet(item, "statistics", EmptyObject)))
    ELSE None

FormattedListItem(svc, item) ==
    IF svc = "sonarr"
    THEN LET stats == DictGet(item, "statistics", EmptyObject) IN
         JObj(("images" :> DictGet(item, "images", EmptyList))
              @@ ("statistics" :>
                    JObj([episodeCount |-> DictGet(stats, "episodeCount", JNum(0)),
                          episodeFileCount |-> DictGet(stats, "episodeFileCount", JNum(0)),
                          percentOfEpisodes |-> DictGet(stats, "percentOfEpisodes", JNum(0)),
                          sizeOnDisk |-> DictGet(stats, "sizeOnDisk", JNum(0))]))
              @@ Pick(item, {"title", "year", "tvdbId", "monitored", "path"}))
    ELSE JObj(("images" :> DictGet(item, "images", EmptyList))
              @@ ("sizeOnDisk" :> DictGet(item, "sizeOnDisk", JNum(0)))
              @@ Pick(item, {"title", "year", "tmdbId", "imdbId", "monitored", "hasFile",
                             "path"}))

\* record.get("quality", {}).get("quality", {}).get("name")
QualityNameError(record) ==
    LET outer == DictGet(record, "quality", EmptyObject) IN
    IF ~IsDict(outer) THEN Some(NoGet(outer))
    ELSE IF ~IsDict(DictGet(outer, "quality", EmptyObject))
    THEN Some(NoGet(DictGet(outer, "quality", EmptyObject)))
    ELSE None

QualityName(record) ==
    DictGet(DictGet(DictGet(record, "quality", EmptyObject), "quality", EmptyObject),
            "name", JNull)

\* the dictionary get_history builds from one record
HistoryRecordError(svc, record) ==
    IF ~IsDict(record) THEN Some(NoGet(record))
    ELSE LET info == DictGet(record, Noun(svc), EmptyObject)
             episode == DictGet(record, "episode", EmptyObject)
         IN IF ~IsDict(info) THEN Some(NoGet(info))
            ELSE IF svc = "sonarr" /\ ~IsDict(episode) THEN Some(NoGet(episode))
            ELSE IF svc = "sonarr"
                    /\ TwoDigitsError(DictGet(episode, "seasonNumber", JNum(0))) # None
            THEN TwoDigitsError(DictGet(episode, "seasonNumber", JNum(0)))
            ELSE IF svc = "sonarr"
                    /\ TwoDigitsError(DictGet(episode, "episodeNumber", JNum(0))) # None
            THEN TwoDigitsError(DictGet(episode, "episodeNumber", JNum(0)))
            ELSE QualityNameError(record)

FormattedHistoryRecord(svc, record) ==
    LET info == DictGet(record, Noun(svc), EmptyObject)
        episode == DictGet(record, "episode", EmptyObject)
        common == (Noun(svc) :> DictGet(info, "title", JNull))
                  @@ ("quality" :> QualityName(record))
                  @@ Pick(record, {"eventType", "date", "sourceTitle"})
    IN IF svc = "sonarr"
       THEN JObj(("episode" :>
                    JText("S" \o TwoDigits(DictGet(episode, "seasonNumber", JNum(0)))
                          \o "E" \o TwoDigits(DictGet(episode, "episodeNumber", JNum(0)))
                          \o " - " \o PyStr(DictGet(episode, "title", JText("Unknown")))))
                 @@ common)
       ELSE JObj(common)

\* the dictionary add_series / add_movie builds from the added item
FormattedAdded(svc, added) ==
    JObj(("success" :> JBool(TRUE))
         @@ ("images" :> DictGet(added, "images", EmptyList))
         @@ Pick(added, IF svc = "sonarr"
                        THEN {"title", "tvdbId", "path", "monitored"}
                        ELSE {"title", "year", "tmdbId", "path", "monitored"}))

\* the dictionary get_quality_profiles builds from one profile
FormattedProfile(profile) ==
    LET cutoff == DictGet(profile, "cutoff", JNull) IN
    JObj(("cutoff" :> IF IsDict(cutoff) THEN DictGet(cutoff, "name", JNull) ELSE cutoff)
         @@ Pick(profile, {"id", "name", "upgradeAllowed"}))

\* the dictionary get_root_folders builds from one folder
FormattedFolder(folder) ==
    JObj(Pick(folder, {"id", "path", "accessible", "freeSpace", "totalSpace"}))

PlainItemError(item) == IF ~IsDict(item) THEN Some(NoGet(item)) ELSE None

\* the formatting of a tool method between the client call and json.dumps:
\* the exception it raises on an unexpected shape, None when it returns
ToolFormatError(svc, op, data) ==
    LET items == Items(data)
        records == DictGet(data, "records", EmptyList)
    IN CASE op = "search" ->
                ForEachError(data, [k \in 1..Len(items) |-> SearchItemError(svc, items[k])],
                             SearchItemError(svc, AString))
         [] op = "list" ->
                ForEachError(data, [k \in 1..Len(items) |-> ListItemError(svc, items[k])],
                             ListItemError(svc, AString))
         [] op = "get_history" ->
                IF ~IsDict(data) THEN Some(NoGet(data))
                ELSE ForEachError(records,
                                  [k \in 1..Len(Items(records)) |->
                                      HistoryRecordError(svc, Items(records)[k])],
                                  HistoryRecordError(svc, AString))
         [] op = "add" -> IF ~IsDict(data) THEN Some(NoGet(data)) ELSE None
         [] OTHER ->
                ForEachError(data, [k \in 1..Len(items) |-> PlainItemError(items[k])],
                             PlainItemError(AString))

\* the value the tool method serialises, when its formatting returns
ToolFormatValue(svc, op, arguments, data) ==
    LET items == Items(data) IN
    CASE op = "search" ->
            JArr([k \in 1..Len(items) |-> FormattedSearchItem(svc, items[k])])
      [] op = "list" ->
            JArr([k \in 1..Len(items) |-> FormattedListItem(svc, items[k])])
      [] op = "get_history" ->
            LET records == Items(DictGet(data, "records", EmptyList)) IN
            JObj([records |->
                     JArr([k \in 1..Len(records) |-> FormattedHistoryRecord(svc, records[k])]),
                  page |-> DictGet(data, "page", JNum(1)),
                  pageSize |-> DictGet(data, "pageSize",
                                       ArgGet(arguments, "page_size", JNum(20))),
                  totalRecords |-> DictGet(data, "totalRecords", JNum(0))])
      [] op = "add" -> FormattedAdded(svc, data)
      [] op = "get_quality_profiles" ->
            JArr([k \in 1..Len(items) |-> FormattedProfile(items[k])])
      [] OTHER -> JArr([k \in 1..Len(items) |-> FormattedFolder(items[k])])

ToolFormat(svc, op, arguments, data) ==
    IF ToolFormatError(svc, op, data) # None
    THEN Raise(ToolFormatError(svc, op, data)[1])
    ELSE Return(ToolFormatValue(svc, op, arguments, data))

\* What happens once a logical request is over:
\* [more |-> TRUE, request] when the client method sends its next request;
\* [more |-> FALSE, returned, result] when the tool method ends, where
\* `returned` is what the client method returned or raised, if it was called
More(request) == [more |-> TRUE, request |-> request]
Done(r) == [more |-> FALSE, returned |-> None, result |-> r]

\* the tool method after its client method returned or raised `r`
ToolReturn(svc, op, arguments, r) ==
    [more |-> FALSE,
     returned |-> Some(r),
     result |->
        IF r.raised THEN ToolCatch(op, r.exc)
        ELSE LET formatted == ToolFormat(svc, op, arguments, r.value) IN
             IF formatted.raised THEN ToolCatch(op, formatted.exc)
             ELSE Json(formatted.value)]

\* the client method of `op` after _make_request ended its request `step` with `out`
AfterRequest(svc, op, step, arguments, client, out) ==
    IF out.raised THEN ToolReturn(svc, op, arguments, out)
    ELSE CASE op = "search" ->
                ToolReturn(svc, op, arguments, SearchResults(client, out.value))
           [] op = "list" ->
                ToolReturn(svc, op, arguments, ListResults(client, out.value))
           [] op = "get_history" ->
                ToolReturn(svc, op, arguments,
                           Return(HistoryResults(out.value,
                                                 ArgGet(arguments, "page_size", JNum(20)))))
           [] op = "add" /\ step = 1 ->
                LET found == SearchResults(client, out.value) IN
                IF found.raised THEN ToolReturn(svc, op, arguments, found)
                ELSE LET post == AddAfterLookup(svc, AddArguments(svc, arguments),
                                                found.value) IN
                     IF post.raised THEN ToolReturn(svc, op, arguments, post)
                     ELSE More(post.value)
           [] op = "add" /\ step # 1 ->
                ToolReturn(svc, op, arguments, AddResult(client, out.value))
           [] OTHER -> ToolReturn(svc, op, arguments, Return(out.value))

----------------------------------------------------------------------------
(* Call dispatcher: server.py call_tool *)

\* the declared operation a name stands for, as a set of at most one <<svc, op>>
Declared(name) == {d \in DeclaredTools : ToolName(d[1], d[2]) = name}

\* the required keys call_tool subscripts that `arguments` lacks, in order
MissingKeys(svc, op, arguments) ==
    SelectSeq(RequiredArguments(svc, op), LAMBDA k : k \notin DOMAIN arguments)

\* a second request that goes through the default client, not the resolved one
BoundToFirstClient(svc, instance, step, r) ==
    [svc |-> svc, instance |-> IF step > 1 THEN 1 ELSE instance, step |-> step,
     method |-> r.method, endpoint |-> r.endpoint, params |-> r.params,
     json_data |-> r.json_data]

\* the request of a tool method, bound to the client that sends it
Bound(svc, instance, step, r) ==
    [svc |-> svc, instance |-> instance, step |-> step, method |-> r.method,
     endpoint |-> r.endpoint, params |-> r.params, json_data |-> r.json_data]

\* a tool method from its entry to its first request or its early return
ToolEntry(t, svc, op, arguments) ==
    LET client == GetClient(t, ArgInstanceId(arguments)) IN
    IF client.raised THEN Done(ToolCatch(op, client.exc))
    ELSE IF op \notin ClientMethods THEN Done(ToolCatch(op, NoAttribute(svc, op)))
    ELSE More(Bound(svc, client.value, 1, FirstRequest(svc, op, arguments)))

\* a dispatcher that does not test whether the service of a declared
\* operation has a registry, and calls the method on None
DispatchWithoutServiceGuard(tls, name, arguments) ==
    IF Declared(name) = {} THEN Done(Text("Unknown tool: " \o name))
    ELSE LET d == CHOOSE x \in Declared(name) : TRUE
             svc == d[1]
             op == d[2]
         IN IF MissingKeys(svc, op, arguments) # <<>>
            THEN Done(Text("Error executing " \o name \o ": '"
                               \o MissingKeys(svc, op, arguments)[1] \o "'"))
            ELSE IF tls[svc] = None
            THEN Done(Text("Error executing " \o name
                               \o ": 'NoneType' object has no attribute '" \o op \o "'"))
            ELSE ToolEntry(tls[svc][1], svc, op, arguments)

\* call_tool from its entry to the first request or to its return
Dispatch(tls, name, arguments) ==
    IF Declared(name) = {} THEN Done(Text("Unknown tool: " \o name))
    ELSE LET d == CHOOSE x \in Declared(name) : TRUE
             svc == d[1]
             op == d[2]
         IN IF tls[svc] = None THEN Done(Text("Unknown tool: " \o name))
            ELSE IF MissingKeys(svc, op, arguments) # <<>>
            THEN Done(Text("Error executing " \o name \o ": '"
                               \o MissingKeys(svc, op, arguments)[1] \o "'"))
            ELSE ToolEntry(tls[svc][1], svc, op, arguments)

----------------------------------------------------------------------------
(* The inputs the model tries *)

\* a name call_tool does not declare
UndeclaredName == "plex_list_movies"

ToolNames == {ToolName(d[1], d[2]) : d \in DeclaredTools} \cup {UndeclaredName}

\* the tools tried where every backend answer is explored: one request each
TransportToolNames == {"radarr_get_root_folders", "sonarr_list_series"}

SampleValue(key) ==
    CASE key = "query" -> JText("dune")
      [] key = "root_folder_path" -> JStr(<<"/", "media">>)
      [] key = "quality_profile_id" -> JNum(1)
      [] OTHER -> JNum(603)

InstanceChoices ==
    {<<>>} \cup {[instance_id |-> JNum(i)] : i \in 1..(MaxInstanceId + 1)}

\* with and without the keys call_tool requires
RequiredChoices(name) ==
    IF Declared(name) = {} THEN {<<>>}
    ELSE LET d == CHOOSE x \in Declared(name) : TRUE
             keys == RequiredArguments(d[1], d[2])
         IN {<<>>} \cup {[k \in {keys[j] : j \in 1..Len(keys)} |-> SampleValue(k)]}

ArgumentChoices(name) ==
    {i @@ r : i \in InstanceChoices, r \in RequiredChoices(name)}

\* the optional arguments tried with the operations that take some
OptionalChoices(name) ==
    IF name \in {"sonarr_get_history", "radarr_get_history", "sonarr_get_queue",
                 "radarr_get_queue"}
    THEN {<<>>, [page |-> JNum(2), page_size |-> JNum(5)]}
    ELSE IF name \in {"sonarr_get_calendar", "radarr_get_calendar"}
    THEN {<<>>, [start_date |-> JText("2024-01-01"), end_date |-> JText("2024-01-31")]}
    ELSE IF name = "sonarr_add_series" THEN {<<>>, [monitor |-> JText("none")]}
    ELSE IF name = "radarr_add_movie" THEN {<<>>, [monitor |-> JBool(FALSE)]}
    ELSE {<<>>}

\* the tools and arguments tried where the client and tool methods are explored
AdapterToolNames == ToolNames \ {UndeclaredName}

\* with every key call_tool requires
CompleteChoices(name) ==
    IF RequiredChoices(name) = {<<>>} THEN {<<>>} ELSE RequiredChoices(name) \ {<<>>}

AdapterArgumentChoices(name) ==
    {i @@ r @@ o : i \in {<<>>, [instance_id |-> JNum(2)]},
                   r \in CompleteChoices(name),
                   o \in OptionalChoices(name)}

\* the ids the environments set variables for
ScannedIds == 1..(MaxInstanceId + 1)

\* the two variables of one id, each unset (None) or set to a value
Pair(url, api_key) == [url |-> url, api_key |-> api_key]

\* an environment that configures exactly the instances `ids` of a service
ServiceEnviron(svc, ids, slashes) ==
    [i \in ScannedIds |->
        IF i \in ids THEN Pair(Some(EnvUrl(svc, i, slashes)), Some(EnvApiKey(svc, i)))
        ELSE Pair(None, None)]

Environ(sonarr_ids, radarr_ids, slashes) ==
    [svc \in Services |->
        ServiceEnviron(svc, IF svc = "sonarr" THEN sonarr_ids ELSE radarr_ids, slashes)]

CanonicalEnvirons == {Environ(s, r, n) : s \in KeySets, r \in KeySets, n \in 0..1}

\* the ways the pair of one id is tried where startup is explored
PairKinds == {"unset", "valid", "url_only", "key_only", "empty_url", "short_key", "empty"}

TriedPair(svc, i, kind) ==
    CASE kind = "unset" -> Pair(None, None)
      [] kind = "valid" -> Pair(Some(EnvUrl(svc, i, 1)), Some(EnvApiKey(svc, i)))
      [] kind = "url_only" -> Pair(Some(EnvUrl(svc, i, 0)), None)
      [] kind = "key_only" -> Pair(None, Some(EnvApiKey(svc, i)))
      [] kind = "empty_url" -> Pair(Some(<<>>), Some(EnvApiKey(svc, i)))
      [] kind = "short_key" -> Pair(Some(EnvUrl(svc, i, 0)), Some(ShortApiKey))
      [] kind = "empty" -> Pair(Some(<<>>), Some(<<>>))

\* every way to set the variables of one service, beside an environment of
\* the other service that configures some instances or none
StartupEnvirons ==
    {[svc \in Services |->
         IF svc = tried THEN [i \in ScannedIds |-> TriedPair(svc, i, kinds[i])]
         ELSE ServiceEnviron(svc, ids, 0)] :
       tried \in Services, kinds \in [ScannedIds -> PairKinds], ids \in KeySets}

\* the answers tried where startup, cancellation and concurrency are explored
FewReplies == {Response(200, FALSE, BodyEmptyArray), Fault("connection")}

----------------------------------------------------------------------------
(* The state machine *)

Idle == <<>>

\* main() after load_config succeeded, before the first call
InitWith(cfg) ==
    /\ environ = CHOOSE e \in CanonicalEnvirons : LoadConfig(e) = Return(cfg)
    /\ stdout = <<>>
    /\ config = cfg
    /\ tools = MainTools(cfg)
    /\ pc = "idle"
    /\ call = Idle
    /\ req = Idle
    /\ wire = <<>>
    /\ outcome = <<>>
    /\ returned = None
    /\ result = Idle
    /\ sink = <<>>
    /\ cancelled = None
    /\ batch = {}
    /\ finished = <<>>

\* load_config refuses a configuration with no instance at all
Configs ==
    {Config(s, r, n) : s \in KeySets, r \in KeySets, n \in 0..1} \
        {Config({}, {}, n) : n \in 0..1}

Init == \E cfg \in Configs : InitWith(cfg)

\* a registry that remembers the client it resolved last and sends through it
ClientOfLastResolved(tls, r) ==
    IF finished # <<>> /\ finished[Len(finished)].wire # <<>>
       /\ finished[Len(finished)].wire[1].svc = r.svc
    THEN tls[r.svc][1].clients[finished[Len(finished)].wire[1].instance]
    ELSE tls[r.svc][1].clients[r.instance]

\* the client a request was bound to: self.clients[instance_id]
ClientOf(tls, r) == tls[r.svc][1].clients[r.instance]

\* session.request starts with the retry budget of the client's session
InFlight(tls, r) ==
    [total |-> ClientOf(tls, r).session.total, slept |-> NoSleep] @@ r

\* one HTTP attempt as the backend sees it, and the sleep that preceded it
Attempt(tls, r, reply) ==
    [svc |-> r.svc, instance |-> r.instance, step |-> r.step, method |-> r.method,
     url |-> Url(ClientOf(tls, r), r.endpoint), api_key |-> ClientOf(tls, r).session.headers.XApiKey,
     params |-> r.params, json_data |-> r.json_data, slept |-> r.slept, reply |-> reply]

\* what _make_request logs before session.request
RequestRecord(tls, r) ==
    LogHttpCall(r.method, Url(ClientOf(tls, r), r.endpoint), r.params, r.json_data)

\* main(): load_config, then the registries, or the message and the return
Main ==
    /\ pc = "start"
    /\ LET loaded == LoadConfig(environ) IN
       IF loaded.raised
       THEN /\ pc' = "exited"
            /\ stdout' = <<"Failed to load configuration: " \o loaded.exc.message>>
            /\ UNCHANGED <<config, tools>>
       ELSE /\ pc' = "idle"
            /\ config' = loaded.value
            /\ tools' = MainTools(loaded.value)
            /\ UNCHANGED stdout
    /\ UNCHANGED <<environ, call, req, wire, outcome, returned, result, sink,
                   cancelled, batch, finished>>

\* call_tool is entered for the invocation c: it runs to its first HTTP
\* attempt or to its return
Enter(c) ==
    /\ pc = "idle"
    /\ LET next == Dispatch(tools, c.name, c.arguments) IN
       /\ call' = c
       /\ wire' = <<>>
       /\ outcome' = <<>>
       /\ IF next.more
          THEN /\ pc' = "http"
               /\ req' = InFlight(tools, next.request)
               /\ sink' = <<RequestRecord(tools, next.request)>>
               /\ returned' = None
               /\ result' = Idle
          ELSE /\ pc' = "done"
               /\ req' = Idle
               /\ sink' = <<>>
               /\ returned' = next.returned
               /\ result' = next.result
    /\ UNCHANGED <<environ, stdout, config, tools, cancelled>>

\* a call arrives while no other is being served
CallTool(name, arguments) ==
    /\ Enter([name |-> name, arguments |-> arguments])
    /\ UNCHANGED <<batch, finished>>

\* the backend answers the attempt in flight: the session sleeps and retries,
\* or _make_request and the tool method run on to the next request or the return
HttpAttempt(reply) ==
    /\ pc = "http"
    /\ wire' = Append(wire, Attempt(tools, req, reply))
    /\ LET client == ClientOf(tools, req)
           d == Declared(call.name)
           op == (CHOOSE x \in d : TRUE)[2]
       IN IF AttemptDecision(client.session, req.method, req.total, reply) = "retry"
          THEN /\ req' = [req EXCEPT !.total = @ - 1,
                                     !.slept = Sleep(client.session,
                                                     client.session.total - req.total + 1,
                                                     reply)]
               /\ UNCHANGED <<pc, outcome, returned, result, sink>>
          ELSE LET out == MakeRequestOutcome(client, req.method, req.endpoint,
                                             req.total, reply)
                   logged == MakeRequestLog(client, req.method, req.endpoint,
                                            req.total, reply)
                   next == AfterRequest(req.svc, op, req.step, call.arguments, client, out)
               IN /\ outcome' = Append(outcome, out)
                  /\ IF next.more
                     THEN /\ req' = InFlight(tools,
                                      Bound(req.svc, req.instance, req.step + 1, next.request))
                          /\ sink' = sink \o logged
                                  \o <<RequestRecord(tools,
                                          Bound(req.svc, req.instance, req.step + 1,
                                                next.request))>>
                          /\ UNCHANGED <<pc, returned, result>>
                     ELSE /\ pc' = "done"
                          /\ req' = Idle
                          /\ sink' = sink \o logged
                          /\ returned' = next.returned
                          /\ result' = next.result
    /\ UNCHANGED <<environ, stdout, config, tools, call, cancelled, batch, finished>>

\* The calling protocol cancels the invocation being served. The tool methods
\* are coroutines that call the blocking client without awaiting anything, so
\* nothing in the invocation reads the cancellation before it returns.
Cancel ==
    /\ pc = "http"
    /\ cancelled = None
    /\ cancelled' = Some(Len(wire))
    /\ UNCHANGED <<environ, stdout, config, tools, pc, call, req, wire, outcome,
                   returned, result, sink, batch, finished>>

\* call_tool returns the text and the process waits for the next call
Leave ==
    /\ pc = "done"
    /\ pc' = "idle"
    /\ call' = Idle
    /\ req' = Idle
    /\ wire' = <<>>
    /\ outcome' = <<>>
    /\ returned' = None
    /\ result' = Idle
    /\ sink' = <<>>
    /\ cancelled' = None
    /\ UNCHANGED <<environ, stdout, config, tools>>

\* the dispatcher hands the text to the caller and waits for the next call
ReturnResult ==
    /\ Leave
    /\ UNCHANGED <<batch, finished>>

\* The protocol layer receives several calls at once and queues one task per
\* call on the event loop; what the previous batch returned has been delivered.
Receive(calls) ==
    /\ pc = "idle"
    /\ batch = {}
    /\ batch' = calls
    /\ finished' = <<>>
    /\ UNCHANGED <<environ, stdout, config, tools, pc, call, req, wire, outcome,
                   returned, result, sink, cancelled>>

\* The event loop runs one of the queued tasks, whichever it picks. A tool
\* method awaits nothing between its entry and its return, so the task runs
\* to its return before the loop picks another.
StartQueued(c) ==
    /\ c \in batch
    /\ Enter(c)
    /\ batch' = batch \ {c}
    /\ UNCHANGED finished

\* the task of the call being served returns its text
Complete ==
    /\ Leave
    /\ finished' = Append(finished, [call |-> call, wire |-> wire, result |-> result])
    /\ UNCHANGED batch

Next ==
    \/ \E name \in ToolNames : \E arguments \in ArgumentChoices(name) :
          CallTool(name, arguments)
    \/ \E reply \in CoarseReplies : HttpAttempt(reply)
    \/ ReturnResult

Spec == Init /\ [][Next]_vars

\* the transport explored with every answer a backend can give
TransportConfigs == {Config(1..2, 1..2, n) : n \in 0..1}

InitTransport == \E cfg \in TransportConfigs : InitWith(cfg)

NextTransport ==
    \/ \E name \in TransportToolNames : \E arguments \in ArgumentChoices(name) :
          CallTool(name, arguments)
    \/ \E reply \in Replies : HttpAttempt(reply)
    \/ ReturnResult

SpecTransport == InitTransport /\ [][NextTransport]_vars

\* the client and tool methods explored with the bodies a backend can answer
NextAdapters ==
    \/ \E name \in AdapterToolNames : \E arguments \in AdapterArgumentChoices(name) :
          CallTool(name, arguments)
    \/ \E reply \in AdapterReplies : HttpAttempt(reply)
    \/ ReturnResult

SpecAdapters == InitTransport /\ [][NextAdapters]_vars

\* the process from its start: main() on every environment tried, then calls
InitStartup ==
    /\ environ \in StartupEnvirons
    /\ stdout = <<>>
    /\ config = Idle
    /\ tools = [svc \in Services |-> None]
    /\ pc = "start"
    /\ call = Idle
    /\ req = Idle
    /\ wire = <<>>
    /\ outcome = <<>>
    /\ returned = None
    /\ result = Idle
    /\ sink = <<>>
    /\ cancelled = None
    /\ batch = {}
    /\ finished = <<>>

NextStartup ==
    \/ Main
    \/ \E name \in TransportToolNames : \E arguments \in InstanceChoices :
          CallTool(name, arguments)
    \/ \E reply \in FewReplies : HttpAttempt(reply)
    \/ ReturnResult

SpecStartup == InitStartup /\ [][NextStartup]_vars

\* calls that the calling protocol may cancel while they are served
NextCancel ==
    \/ \E name \in TransportToolNames : \E arguments \in InstanceChoices :
          CallTool(name, arguments)
    \/ \E reply \in FewReplies : HttpAttempt(reply)
    \/ Cancel
    \/ ReturnResult

SpecCancel == InitTransport /\ [][NextCancel]_vars

\* the calls of a batch: to the same instance, to two instances of a service,
\* to two services
ConcurrentToolNames == {"radarr_get_root_folders", "sonarr_list_series"}
MaxConcurrent == 2

QueuedCalls(id) ==
    {[id |-> id, name |-> name, arguments |-> arguments] :
        name \in ConcurrentToolNames,
        arguments \in {<<>>, [instance_id |-> JNum(2)]}}

Batches ==
    {{c[id] : id \in 1..MaxConcurrent} :
        c \in {f \in [1..MaxConcurrent -> UNION {QueuedCalls(id) : id \in 1..MaxConcurrent}] :
                  \A id \in 1..MaxConcurrent : f[id].id = id}}

\* batches of concurrent calls, served in every order
NextConcurrent ==
    \/ \E calls \in Batches : Receive(calls)
    \/ \E c \in batch : StartQueued(c)
    \/ \E reply \in FewReplies : HttpAttempt(reply)
    \/ Complete

SpecConcurrent == InitTransport /\ [][NextConcurrent]_vars

\* the ways an attempt can end: a success, an error status that is not
\* retried, one that is, a refused connection, a timeout
TerminationReplies ==
    {Response(200, FALSE, BodyMediaArray), Response(404, FALSE, BodyHtml),
     Response(503, FALSE, BodyHtml), Fault("connection"), Fault("read_timeout")}

\* a tool of two logical requests, one of one, and a name that is not a tool
TerminationToolNames == {"radarr_add_movie", "sonarr_list_series", UndeclaredName}

NextTermination ==
    \/ \E name \in TerminationToolNames : \E arguments \in RequiredChoices(name) :
          CallTool(name, arguments)
    \/ \E reply \in TerminationReplies : HttpAttempt(reply)
    \/ ReturnResult

\* session.request is given timeout=self.timeout (base.py:144), so an attempt
\* in flight ends with a response or a failure: the attempt is weakly fair.
\* call_tool returns once the tool method has: the return is weakly fair.
\* Nothing obliges a caller to call again.
SpecTermination ==
    /\ InitTransport
    /\ [][NextTermination]_vars
    /\ WF_vars(\E reply \in TerminationReplies : HttpAttempt(reply))
    /\ WF_vars(ReturnResult)

----------------------------------------------------------------------------
(* Properties of the transport, checked under SpecTransport, where every    *)
(* tool sends one logical request, so `wire` holds the attempts of it       *)

FinalReply == wire[Len(wire)].reply
LastOutcome == outcome[Len(outcome)]
RequestOver == pc = "done" /\ wire # <<>>

\* every attempt so far was answered with status s
AllAnswered(s) ==
    /\ wire # <<>>
    /\ \A k \in 1..Len(wire) :
          wire[k].reply.fault = "none" /\ wire[k].reply.status_code = s

\* every attempt so far failed on the connection
AllFailed ==
    /\ wire # <<>>
    /\ \A k \in 1..Len(wire) : wire[k].reply.fault \in FaultKinds

\* the error kinds of the specification, read off the exception _make_request raises
IsApiError(out, status_code, message) ==
    out.raised /\ out.exc = ArrAPIError(message, status_code)
IsNetworkError(out) == out.raised /\ out.exc.cls = "ArrNetworkError"
Excerpt(reply) == ToString(reply.status_code) \o " - " \o reply.body.text
IsServerError(out, reply) ==
    IsApiError(out, reply.status_code, "Server error: " \o Excerpt(reply))
IsGenericAPIError(out, reply) ==
    IsApiError(out, reply.status_code, "API request failed: " \o Excerpt(reply))

\* the path each tool of SpecTransport requests
RequestedPath ==
    IF call.name = "radarr_get_root_folders" THEN "/api/v3/rootfolder" ELSE "/api/v3/series"

\* C1, as claimed: with max_retries = 3 and every attempt answered with the
\* same status of {429, 500, 502, 503, 504}, exactly 3 attempts are made
\* before the error is surfaced.
C1_ExactlyThreeAttempts ==
    \A s \in {429, 500, 502, 503, 504} :
        (config.request_max_retries = 3 /\ AllAnswered(s)) =>
            /\ Len(wire) <= 3
            /\ pc = "done" => Len(wire) = 3

\* C1, amended: with max_retries = 3 and every attempt answered with the same
\* status of {429, 500, 502, 503, 504}, exactly 4 attempts are made (the first
\* one and 3 retries) before the error is surfaced: never more than 4, and the
\* request is still in flight while fewer than 4 were made.
C1_InitialAttemptPlusThreeRetries ==
    \A s \in {429, 500, 502, 503, 504} :
        (config.request_max_retries = 3 /\ AllAnswered(s)) =>
            /\ Len(wire) <= 4
            /\ Len(wire) < 4 => pc = "http"
            /\ pc = "done" => Len(wire) = 4 /\ LastOutcome.raised

C1_Witness ==
    /\ pc = "done"
    /\ config.request_max_retries = 3
    /\ AllAnswered(503)
    /\ Len(wire) = 4
    /\ result.kind = "text"

\* C2, as claimed: an attempt answered with a status outside {429, 500, 502,
\* 503, 504} is never retried: it is the last attempt of its request, and the
\* only one when it answers the first attempt.
C2_NoRetryOutsideForcelist ==
    \A k \in 1..Len(wire) :
        (wire[k].reply.fault = "none"
            /\ wire[k].reply.status_code \notin {429, 500, 502, 503, 504}) =>
            k = Len(wire) /\ pc = "done"

\* C3, as claimed: the final status decides the outcome: 401 authentication
\* error, 404 not-found error naming the path, 400 validation error, >= 500
\* server error, any other status outside 2xx generic API error, 2xx no
\* API-status error.
C3_NonSuccessIsGenericError ==
    RequestOver /\ FinalReply.fault = "none" =>
        LET r == FinalReply
            s == FinalReply.status_code
            out == LastOutcome
        IN /\ s = 401 => IsApiError(out, 401, "Authentication failed. Please check your API key.")
           /\ s = 404 => IsApiError(out, 404, "Resource not found: " \o RequestedPath)
           /\ s = 400 => out.raised /\ out.exc.cls = "ArrAPIError"
                            /\ out.exc.status_code = Some(400)
           /\ s >= 500 => IsServerError(out, r)
           /\ (s \notin {400, 401, 404} /\ s < 500 /\ s \notin 200..299) =>
                 IsGenericAPIError(out, r)
           /\ s \in 200..299 => ~(out.raised /\ out.exc.cls = "ArrAPIError")

\* C3, amended: 401 authentication error, 404 not-found error naming the
\* path, 400 validation error, >= 500 server error, any other status from 400
\* up generic API error; every status below 400 (2xx, and a final 1xx or 3xx)
\* no API-status error, and the parsed body when the body is empty or JSON.
C3_StatusClassification ==
    RequestOver /\ FinalReply.fault = "none" =>
        LET r == FinalReply
            s == FinalReply.status_code
            out == LastOutcome
        IN /\ s = 401 => IsApiError(out, 401, "Authentication failed. Please check your API key.")
           /\ s = 404 => IsApiError(out, 404, "Resource not found: " \o RequestedPath)
           /\ s = 400 => out.raised /\ out.exc.cls = "ArrAPIError"
                            /\ out.exc.status_code = Some(400)
           /\ s >= 500 => IsServerError(out, r)
           /\ (s \notin {400, 401, 404} /\ s < 500 /\ s >= 400) =>
                 IsGenericAPIError(out, r)
           /\ s < 400 =>
                 /\ ~(out.raised /\ out.exc.cls = "ArrAPIError")
                 /\ (r.body.text = "" \/ r.body.json # None) => ~out.raised

C3_Witness ==
    /\ RequestOver
    /\ FinalReply.fault = "none"
    /\ FinalReply.status_code = 304
    /\ ~LastOutcome.raised
    /\ Len(wire) = 1

\* C4, as claimed: when the retries are spent on a status of {429, 500, 502,
\* 503, 504}, 429 included, the caller gets a server error or a network error.
C4_ExhaustedIsServerOrNetworkError ==
    (RequestOver /\ FinalReply.fault = "none"
        /\ FinalReply.status_code \in {429, 500, 502, 503, 504}) =>
        IsServerError(LastOutcome, FinalReply) \/ IsNetworkError(LastOutcome)

\* C4, amended: when the retries are spent on a status of {500, 502, 503,
\* 504} the caller gets a server error, and on 429 a generic API error; never
\* a success or another kind of error.
C4_ExhaustedIsServerOrGenericError ==
    (RequestOver /\ FinalReply.fault = "none"
        /\ FinalReply.status_code \in {429, 500, 502, 503, 504}) =>
        /\ Len(wire) = config.request_max_retries + 1
        /\ FinalReply.status_code # 429 => IsServerError(LastOutcome, FinalReply)
        /\ FinalReply.status_code = 429 => IsGenericAPIError(LastOutcome, FinalReply)

C4_Witness ==
    /\ RequestOver
    /\ AllAnswered(429)
    /\ IsGenericAPIError(LastOutcome, FinalReply)
    /\ result = Text("Error: API request failed: 429 - <html>Bad Gateway</html>")

\* C5: a request whose attempts all fail on the connection (refused, connect
\* timeout, read timeout) is retried until the budget of max_retries retries
\* is spent and then ends in a network error; a failed connection never ends
\* in an API-status error or a success.
C5_ConnectionFailureIsNetworkError ==
    /\ AllFailed =>
          /\ Len(wire) <= config.request_max_retries + 1
          /\ Len(wire) <= config.request_max_retries => pc = "http"
          /\ pc = "done" => Len(wire) = config.request_max_retries + 1
    /\ (RequestOver /\ FinalReply.fault \in FaultKinds) =>
          /\ IsNetworkError(LastOutcome)
          /\ result.kind = "text"

C5_Witness ==
    /\ RequestOver
    /\ AllFailed
    /\ \E k \in 1..Len(wire) : wire[k].reply.fault = "read_timeout"
    /\ \E k \in 1..Len(wire) : wire[k].reply.fault = "connection"
    /\ IsNetworkError(LastOutcome)

\* C6: the message of the validation error of a 400 response is the
\* errorMessage of the first element of a JSON array, the message of a JSON
\* object, and "Bad request" otherwise (no JSON, empty array, field missing,
\* first element no object); the error is a 400 API error in every case.
C6_BadRequestMessage ==
    (RequestOver /\ FinalReply.fault = "none" /\ FinalReply.status_code = 400) =>
        LET b == FinalReply.body
            expected ==
                CASE b.text = "[{\"errorMessage\": \"Path exists\"}, {\"errorMessage\": \"Second\"}]"
                        -> "Path exists"
                  [] b.text = "{\"message\": \"Invalid id\"}" -> "Invalid id"
                  [] OTHER -> "Bad request"
        IN /\ IsApiError(LastOutcome, 400, expected)
           /\ result = Text("Error: " \o expected)

C6_Witness ==
    /\ RequestOver
    /\ FinalReply.fault = "none"
    /\ FinalReply.status_code = 400
    /\ FinalReply.body = BodyArrayOfScalar
    /\ LastOutcome.exc.message = "Bad request"

\* C7, as claimed: a 2xx response with an empty body is a success with a null
\* payload, with a JSON body a success with the parsed value, and with a body
\* that is not JSON a parse error that is neither a network error nor an
\* API-status error.
C7_InvalidJsonIsParseError ==
    (RequestOver /\ FinalReply.fault = "none" /\ FinalReply.status_code \in 200..299) =>
        LET b == FinalReply.body IN
        /\ b.text = "" => LastOutcome = Return(JNull)
        /\ (b.text # "" /\ b.json # None) => LastOutcome = Return(b.json[1])
        /\ (b.text # "" /\ b.json = None) =>
              /\ LastOutcome.raised
              /\ LastOutcome.exc.cls \notin {"ArrNetworkError", "ArrAPIError"}

----------------------------------------------------------------------------
(* Properties of the registries and the dispatcher, checked under Spec *)

Registered(svc) == DOMAIN tools[svc][1].clients

\* the smallest registered id: no registered id is below it
MinimumRegistered(svc) ==
    CHOOSE m \in Registered(svc) : ~\E j \in Registered(svc) : j < m

\* S listed in ascending order
Ascending(S) ==
    CHOOSE s \in [1..Cardinality(S) -> S] :
        \A i, j \in 1..Cardinality(S) : i < j => s[i] < s[j]

\* the invocation names a declared tool of a configured service and carries
\* the arguments call_tool requires, so that it enters the tool method
EntersTool ==
    /\ pc # "idle"
    /\ Declared(call.name) # {}
    /\ LET d == CHOOSE x \in Declared(call.name) : TRUE IN
       /\ tools[d[1]] # None
       /\ MissingKeys(d[1], d[2], call.arguments) = <<>>

CallService == (CHOOSE x \in Declared(call.name) : TRUE)[1]
CallOp == (CHOOSE x \in Declared(call.name) : TRUE)[2]

C9_UnknownInstance ==
    (EntersTool /\ "instance_id" \in DOMAIN call.arguments
        /\ call.arguments["instance_id"].v \notin Registered(CallService)) =>
        /\ pc = "done"
        /\ wire = <<>>
        /\ outcome = <<>>
        /\ result =
              Text((IF CallOp = "add" THEN "Validation error: " ELSE "Unexpected error: ")
                   \o (IF CallService = "sonarr" THEN "Sonarr" ELSE "Radarr")
                   \o " instance " \o ToString(call.arguments["instance_id"].v)
                   \o " not found. Available instances: "
                   \o JoinInts(", ", Ascending(Registered(CallService))))

C9_Witness ==
    /\ pc = "done"
    /\ call.name = "radarr_list_movies"
    /\ tools["radarr"] # None
    /\ Registered("radarr") = {1, 2}
    /\ wire = <<>>
    /\ result = Text("Unexpected error: Radarr instance 3 not found. "
                        \o "Available instances: 1, 2")

\* the registry of each service holds one client per configured instance id,
\* built from the URL and the API key configured for that id
RegistryMatchesConfig ==
    \A svc \in Services :
        LET instances == InstancesOf(config, svc) IN
        IF DOMAIN instances = {} THEN tools[svc] = None
        ELSE /\ tools[svc] # None
             /\ Registered(svc) = DOMAIN instances
             /\ \A i \in DOMAIN instances :
                   LET client == tools[svc][1].clients[i] IN
                   /\ client.base_url = instances[i].url
                   /\ client.api_key = instances[i].api_key
                   /\ client.session.headers.XApiKey = instances[i].api_key
                   /\ instances[i].api_key = EnvApiKey(svc, i)
                   /\ Concat(instances[i].url) = Concat(EnvUrl(svc, i, 0))

\* C10: in every reachable state the registry holds exactly one client per
\* configured instance id, with the URL and API key configured for that id,
\* and no step of a tool invocation, successful or failing, changes the
\* registry or the configuration.
C10_RegistryFixedAfterStartup ==
    /\ []RegistryMatchesConfig
    /\ [][tools' = tools /\ config' = config]_vars

C10_Witness ==
    /\ pc = "done"
    /\ call.name = "radarr_add_movie"
    /\ Len(outcome) = 2
    /\ outcome[1].raised = FALSE
    /\ outcome[2].raised
    /\ Registered("radarr") = {1, 2}
    /\ tools["sonarr"] = None
    /\ RegistryMatchesConfig

----------------------------------------------------------------------------
(* Properties of the client and tool methods, checked under SpecAdapters,   *)
(* where every call names a declared tool, carries its required arguments   *)
(* and resolves its instance                                                *)

\* the invocation in progress is an add_series / add_movie
AddCall == pc # "idle" /\ Declared(call.name) # {} /\ CallOp = "add"

\* the lookup of the add ended without an error
LookupAnswered == Len(outcome) >= 1 /\ ~outcome[1].raised

\* the backend bodies that hold no lookup result: no body, null, [] and {}
NoLookupResult(v) == v \in {JNull, JArr(<<>>), JObj(EmptyDict)}

NotFoundText ==
    (IF CallService = "sonarr" THEN "Series with TVDB ID " ELSE "Movie with TMDB ID ")
        \o "603 not found"

\* C11: an add whose lookup returns an empty result set never sends the
\* creation POST: the client raises the lookup-failed error (a ValueError,
\* not one of the transport's ArrClientError classes), the tool reports it as
\* "Validation error: ... not found", and the backend sees only the lookup GET.
C11_NoPostAfterEmptyLookup ==
    (AddCall /\ LookupAnswered /\ NoLookupResult(outcome[1].value)) =>
        /\ pc = "done"
        /\ Len(outcome) = 1
        /\ \A k \in 1..Len(wire) : wire[k].method = "GET"
        /\ returned = Some(Raise(Exc("ValueError", NotFoundText)))
        /\ ~IsArrClientError(returned[1].exc)
        /\ result = Text("Validation error: " \o NotFoundText)

C11_Witness ==
    /\ pc = "done"
    /\ call.name = "sonarr_add_series"
    /\ Len(wire) = 1
    /\ wire[1].reply = Response(200, FALSE, BodyNull)
    /\ result = Text("Validation error: Series with TVDB ID 603 not found")

\* the path of the lookup and of the creation of the service called
LookupUrlTail == "/api/v3/" \o Noun(CallService) \o "/lookup"
CreateUrl(k) ==
    "http://" \o wire[k].svc \o "-" \o ToString(wire[k].instance) \o ":7878/api/v3/"
        \o Noun(CallService)

\* C12: in every add the lookup GET comes first and the creation POST after
\* it, through the same client (same service, instance, base URL and API
\* key); the add requests at most one creation, so every POST on the wire is
\* an attempt of that one request, with one payload, and nothing follows it;
\* no POST is sent when the lookup ended in a transport or API error.
C12_LookupThenOnePost ==
    AddCall =>
        /\ wire # <<>> =>
              /\ wire[1].method = "GET"
              /\ wire[1].step = 1
              /\ wire[1].url = "http://" \o wire[1].svc \o "-" \o ToString(wire[1].instance)
                                  \o ":7878" \o LookupUrlTail
        /\ \A k \in 1..Len(wire) :
              /\ wire[k].step \in {1, 2}
              /\ wire[k].method = (IF wire[k].step = 1 THEN "GET" ELSE "POST")
              /\ wire[k].method = "POST" =>
                    /\ k > 1
                    /\ LookupAnswered
                    /\ wire[k].svc = wire[1].svc
                    /\ wire[k].instance = wire[1].instance
                    /\ wire[k].api_key = wire[1].api_key
                    /\ wire[k].url = CreateUrl(1)
                    /\ \A j \in k..Len(wire) :
                          wire[j].method = "POST" /\ wire[j].json_data = wire[k].json_data
        /\ Len(outcome) <= 2
        /\ (Len(outcome) >= 1 /\ outcome[1].raised) =>
              /\ pc = "done"
              /\ \A k \in 1..Len(wire) : wire[k].method = "GET"

C12_Witness ==
    /\ pc = "done"
    /\ call.name = "radarr_add_movie"
    /\ "instance_id" \in DOMAIN call.arguments
    /\ Len(wire) = 5
    /\ wire[1].method = "GET"
    /\ \A k \in 2..5 : wire[k].method = "POST" /\ wire[k].instance = 2
    /\ Len(outcome) = 2

\* the invocation is over and its only request was answered without an error
Answered(op) ==
    /\ pc = "done"
    /\ Declared(call.name) # {}
    /\ CallOp = op
    /\ Len(outcome) = 1
    /\ ~outcome[1].raised

\* what _make_request returned for the only request
Answer == outcome[1].value

\* the titles of the elements of an array, None for an element without one
Titles(arr) ==
    [k \in 1..Len(arr.v) |->
        IF arr.v[k].t = "obj" /\ "title" \in DOMAIN arr.v[k].v
        THEN Some(arr.v[k].v["title"]) ELSE None]

\* C13, as claimed: whatever the backend answers to the lookup, search returns
\* an array: for an array answer an array of the same elements in the same
\* order, for a single JSON object a one-element array of it, for a null or
\* empty answer the empty array.
C13_SearchReturnsArray ==
    Answered("search") =>
        /\ returned # None
        /\ ~returned[1].raised
        /\ returned[1].value.t = "arr"
        /\ Answer.t = "arr" =>
              /\ Len(returned[1].value.v) = Len(Answer.v)
              /\ Titles(returned[1].value) = Titles(Answer)
        /\ (Answer.t = "obj" /\ DOMAIN Answer.v # {}) =>
              /\ Len(returned[1].value.v) = 1
              /\ Titles(returned[1].value) = Titles(JArr(<<Answer>>))
        /\ Answer \in {JNull, JArr(<<>>), JObj(EmptyDict)} => returned[1].value = JArr(<<>>)

\* the page sizes a get_history call can ask for
RequestedPageSize ==
    IF "page_size" \in DOMAIN call.arguments THEN call.arguments["page_size"] ELSE JNum(20)

ZeroRecordPage ==
    JObj([records |-> JArr(<<>>), page |-> JNum(1), pageSize |-> RequestedPageSize,
          totalRecords |-> JNum(0)])

\* C14: get_history on an empty or null backend answer does not fail: it
\* returns the page {records: [], page: 1, pageSize: <requested page_size>,
\* totalRecords: 0}, which the tool serialises as it is; on any other answer
\* it returns the backend's page unchanged; and the request carries the
\* requested page and page size.
C14_HistoryZeroRecordPage ==
    Answered("get_history") =>
        /\ wire[1].params.v["pageSize"] = RequestedPageSize
        /\ wire[1].params.v["page"] =
              (IF "page" \in DOMAIN call.arguments THEN call.arguments["page"] ELSE JNum(1))
        /\ Answer \in {JNull, JArr(<<>>), JObj(EmptyDict)} =>
              /\ returned = Some(Return(ZeroRecordPage))
              /\ result = Json(ZeroRecordPage)
        /\ Answer \notin {JNull, JArr(<<>>), JObj(EmptyDict)} =>
              returned = Some(Return(Answer))

C14_Witness ==
    /\ Answered("get_history")
    /\ call.name = "sonarr_get_history"
    /\ wire[1].reply = Response(200, FALSE, BodyEmpty)
    /\ RequestedPageSize = JNum(5)
    /\ result = Json(JObj([records |-> JArr(<<>>), page |-> JNum(1), pageSize |-> JNum(5),
                           totalRecords |-> JNum(0)]))

\* the backend items a search or list answer holds: the elements of an array,
\* or the single object a search wraps
SourceItems ==
    IF Answer.t = "arr" THEN Answer.v
    ELSE IF CallOp = "search" /\ Answer.t = "obj" /\ DOMAIN Answer.v # {} THEN <<Answer>>
    ELSE <<>>

\* the images of an item, none when it has no `images` field
ImagesOf(item) == IF "images" \in DOMAIN item.v THEN item.v["images"].v ELSE <<>>

\* the base URL configured for an instance, without trailing slashes
BaseUrlOf(svc, instance) == "http://" \o svc \o "-" \o ToString(instance) \o ":7878"

\* `after` is the rewrite of the backend image `before` served by the instance
Rewritten(before, after, svc, instance) ==
    /\ DOMAIN after.v = {"type", "url"}
    /\ after.v["type"] = before.v["coverType"]
    /\ IF before.v["url"].v # <<>> /\ before.v["url"].v[1] = "/"
       THEN Concat(after.v["url"].v) = BaseUrlOf(svc, instance) \o Concat(before.v["url"].v)
       ELSE after.v["url"] = before.v["url"]

\* C15: the image rewrite maps each backend image {coverType, url} to
\* {type: coverType, url: u'}, where u' is the base URL followed by url when
\* url starts with "/" and url itself when it is absolute; the images of each
\* item returned by search and list are the rewrites of the backend's images,
\* as many and in the same order.
C15_ImageRewrite ==
    \A op \in {"search", "list"} :
        (Answered(op) /\ returned # None /\ ~returned[1].raised) =>
            /\ Len(returned[1].value.v) = Len(SourceItems)
            /\ \A k \in 1..Len(SourceItems) :
                  LET before == ImagesOf(SourceItems[k])
                      after == ImagesOf(returned[1].value.v[k])
                  IN /\ "images" \in DOMAIN returned[1].value.v[k].v
                     /\ Len(after) = Len(before)
                     /\ \A j \in 1..Len(before) :
                           Rewritten(before[j], after[j], wire[1].svc, wire[1].instance)

C15_Witness ==
    /\ Answered("list")
    /\ call.name = "sonarr_list_series"
    /\ wire[1].instance = 2
    /\ wire[1].reply = Response(200, FALSE, BodyMediaPair)
    /\ Len(returned[1].value.v) = 2
    /\ ImagesOf(returned[1].value.v[2]) = <<>>
    /\ Len(ImagesOf(returned[1].value.v[1])) = 2
    /\ Concat(ImagesOf(returned[1].value.v[1])[1].v["url"].v)
          = "http://sonarr-2:7878/MediaCover/1/poster.jpg"
    /\ ImagesOf(returned[1].value.v[1])[2] =
          JObj([type |-> JText("fanart"), url |-> JText("https://cdn/fanart.jpg")])

\* a search, list or add ended with a JSON result
Served ==
    /\ pc = "done"
    /\ Declared(call.name) # {}
    /\ CallOp \in {"search", "list", "add"}
    /\ result.kind = "json"

\* the items of that result and the backend items they were made from
ResultItems == IF CallOp = "add" THEN <<result.value>> ELSE result.value.v
BackendItems == IF CallOp = "add" THEN <<LastOutcome.value>> ELSE SourceItems

\* C16: every result of list, search and add carries the images of the
\* backend item rewritten with the base URL of the instance that served it: no
\* image URL of a result starts with "/", and each image keeps the cover type
\* the backend gave it; what the client method returned is rewritten likewise.
C16_ResultsCarryRewrittenImages ==
    Served =>
        LET svc == wire[Len(wire)].svc
            instance == wire[Len(wire)].instance
        IN /\ Len(ResultItems) = Len(BackendItems)
           /\ \A k \in 1..Len(ResultItems) :
                 LET before == ImagesOf(BackendItems[k])
                     after == ImagesOf(ResultItems[k])
                 IN /\ "images" \in DOMAIN ResultItems[k].v
                    /\ Len(after) = Len(before)
                    /\ \A j \in 1..Len(after) :
                          /\ after[j].v["url"].v = <<>> \/ after[j].v["url"].v[1] # "/"
                          /\ Rewritten(before[j], after[j], svc, instance)
           /\ CallOp = "add" =>
                 (IF "images" \in DOMAIN LastOutcome.value.v
                  THEN ImagesOf(returned[1].value) = ImagesOf(result.value)
                  ELSE returned[1].value = LastOutcome.value)

C16_Witness ==
    /\ Served
    /\ call.name = "radarr_add_movie"
    /\ Len(wire) = 2
    /\ wire[2].instance = 2
    /\ wire[2].reply = Response(200, FALSE, BodyMediaObject)
    /\ Concat(result.value.v["images"].v[1].v["url"].v)
          = "http://radarr-2:7878/MediaCover/1/poster.jpg"
    /\ result.value.v["images"].v[1].v["type"] = JText("poster")

----------------------------------------------------------------------------
(* Properties of the tool methods and the dispatcher over every tool, every *)
(* configuration and every argument set, checked under Spec                 *)

\* the instance id of the call is not registered
UnknownInstance ==
    /\ "instance_id" \in DOMAIN call.arguments
    /\ call.arguments["instance_id"].v \notin Registered(CallService)

\* the add found nothing to add
LookupEmpty ==
    /\ CallOp = "add"
    /\ Len(outcome) = 1
    /\ ~outcome[1].raised
    /\ outcome[1].value = JArr(<<>>)

\* C17: no operation of a tool adapter lets an exception escape: each of the
\* 9 operations of each service ends with a result, and after a failure
\* below it (a network error, an API error, an unknown instance id, a lookup
\* that finds nothing during add) with a text that reports that failure; a
\* JSON result is returned only when no request of the call failed.
C17_FailuresAreReported ==
    (EntersTool /\ pc = "done") =>
        /\ result.kind \in {"text", "json"}
        /\ UnknownInstance =>
              /\ result.kind = "text"
              /\ returned = None
        /\ (outcome # <<>> /\ LastOutcome.raised) =>
              /\ IsArrClientError(LastOutcome.exc)
              /\ returned = Some(LastOutcome)
              /\ result = Text("Error: " \o LastOutcome.exc.message)
        /\ (~UnknownInstance /\ LookupEmpty) =>
              result = Text("Validation error: " \o NotFoundText)
        /\ result.kind = "json" =>
              /\ ~UnknownInstance
              /\ outcome # <<>>
              /\ \A k \in 1..Len(outcome) : ~outcome[k].raised
              /\ ~LookupEmpty

C17_Witness ==
    /\ pc = "done"
    /\ call.name = "sonarr_get_history"
    /\ Len(wire) = 4
    /\ \A k \in 1..4 : wire[k].reply = Fault("connection")
    /\ result = Text("Error: Failed to connect to http://sonarr-1:7878")

\* the first key call_tool subscripts for the operation called
FirstRequiredKey ==
    IF CallOp = "search" THEN "query"
    ELSE IF CallService = "sonarr" THEN "tvdb_id" ELSE "tmdb_id"

\* C18: call_tool never throws: every call ends with a result; a name that is
\* no declared operation, or that names an operation of a service without a
\* configured instance, gets the text "Unknown tool: <name>" and no tool
\* method, client or backend is called; a call that lacks a required argument
\* gets the text of the KeyError, "Error executing <name>: '<key>'".
C18_DispatcherNeverThrows ==
    pc = "done" =>
        /\ result.kind \in {"text", "json"}
        /\ (Declared(call.name) = {} \/ tools[CallService] = None) =>
              /\ result = Text("Unknown tool: " \o call.name)
              /\ wire = <<>>
              /\ outcome = <<>>
              /\ returned = None
        /\ (Declared(call.name) # {} /\ tools[CallService] # None
                /\ CallOp \in {"search", "add"}
                /\ FirstRequiredKey \notin DOMAIN call.arguments) =>
              /\ result = Text("Error executing " \o call.name \o ": '"
                                  \o FirstRequiredKey \o "'")
              /\ wire = <<>>
              /\ returned = None

C18_Witness ==
    /\ pc = "done"
    /\ call.name = "sonarr_list_series"
    /\ tools["sonarr"] = None
    /\ result = Text("Unknown tool: sonarr_list_series")

----------------------------------------------------------------------------
(* The operations whose client method is missing, checked under SpecAdapters *)

\* a date, as its distance in days from today
DaysFromToday(n) == [t |-> "date", v |-> n]

\* the invocation of `op` is over; its instance is registered
Finished(op) == pc = "done" /\ Declared(call.name) # {} /\ CallOp = op

\* every attempt on the wire is a GET of `path` on the backend first addressed
OneGetOf(path) ==
    /\ wire # <<>>
    /\ Len(outcome) = 1
    /\ \A k \in 1..Len(wire) :
          /\ wire[k].method = "GET"
          /\ wire[k].step = 1
          /\ wire[k].url = BaseUrlOf(wire[1].svc, wire[1].instance) \o path
          /\ wire[k].params = wire[1].params

\* C19, as claimed: get_queue(page, page_size), get_calendar(start_date,
\* end_date) and get_system_status() each send exactly one GET request, to
\* /api/v3/queue, /api/v3/calendar and /api/v3/system/status, get_queue with
\* the page and page size asked for, and return what that request returned.
C19_QueueCalendarStatusSingleGet ==
    /\ Finished("get_queue") =>
          /\ OneGetOf("/api/v3/queue")
          /\ wire[1].params =
                JObj([page |-> ArgGet(call.arguments, "page", JNum(1)),
                      pageSize |-> ArgGet(call.arguments, "page_size", JNum(20))])
          /\ returned = Some(LastOutcome)
    /\ Finished("get_calendar") =>
          /\ OneGetOf("/api/v3/calendar")
          /\ returned = Some(LastOutcome)
    /\ Finished("get_system_status") =>
          /\ OneGetOf("/api/v3/system/status")
          /\ returned = Some(LastOutcome)

\* C20, as claimed: get_calendar without start_date and end_date sends a
\* request whose window starts today and ends 7 days later for Sonarr and 30
\* days later for Radarr; a start or end date that is supplied is sent as it is.
C20_CalendarDefaultWindow ==
    Finished("get_calendar") =>
        /\ wire # <<>>
        /\ wire[1].params.v["start"] =
              ArgGet(call.arguments, "start_date", DaysFromToday(0))
        /\ wire[1].params.v["end"] =
              ArgGet(call.arguments, "end_date",
                     DaysFromToday(IF CallService = "sonarr" THEN 7 ELSE 30))

----------------------------------------------------------------------------
(* Startup, checked under SpecStartup: main() on an environment, then calls *)

\* a variable is present when it is set to a non-empty value
Present(v) == v # None /\ v # Some(<<>>)
BothPresent(svc, i) ==
    Present(environ[svc][i].url) /\ Present(environ[svc][i].api_key)
OnePresent(svc, i) ==
    Present(environ[svc][i].url) # Present(environ[svc][i].api_key)
WhollyMissing(svc, i) ==
    ~Present(environ[svc][i].url) /\ ~Present(environ[svc][i].api_key)

\* the first wholly-missing id after id 1, one past the last id when none is
Gap(svc) ==
    LET missing == {i \in ScannedIds \ {1} : WhollyMissing(svc, i)}
    IN IF missing = {} THEN MaxInstanceId + 2
       ELSE CHOOSE i \in missing : \A j \in missing : i <= j

\* the ids below the gap that have both URL and key
Configured(svc) == {i \in ScannedIds : i < Gap(svc) /\ BothPresent(svc, i)}

Serving == pc \in {"idle", "http", "done"}
NothingConstructed == config = Idle /\ tools = [svc \in Services |-> None]

\* C21: once main() has run, the registry of a serving process holds, for each
\* service, exactly the ids below the first wholly-missing id after id 1 that
\* have both URL and key (so never an id beyond that gap), and an id below the
\* gap with only one of URL/key makes the process exit with a configuration
\* error and no registry.
C21_DiscoveryStopsAtFirstGap ==
    /\ Serving =>
          \A svc \in Services :
             /\ DOMAIN InstancesOf(config, svc) = Configured(svc)
             /\ IF Configured(svc) = {} THEN tools[svc] = None
                ELSE tools[svc] # None /\ DOMAIN tools[svc][1].clients = Configured(svc)
    /\ (pc # "start" /\ \E svc \in Services : \E i \in ScannedIds :
                            i < Gap(svc) /\ OnePresent(svc, i))
          => /\ pc = "exited"
             /\ Len(stdout) = 1
             /\ NothingConstructed

\* a serving process whose environment configures an id beyond the gap
C21_Witness ==
    /\ Serving
    /\ \E svc \in Services : \E i \in ScannedIds :
          /\ Gap(svc) < i
          /\ BothPresent(svc, i)
          /\ Configured(svc) # {}
          /\ i \notin DOMAIN tools[svc][1].clients

\* the ways the pair of an instance makes loading fail
InvalidPair(svc, i) ==
    \/ Present(environ[svc][i].url) /\ ~Present(environ[svc][i].api_key)
    \/ ~Present(environ[svc][i].url) /\ Present(environ[svc][i].api_key)
    \/ environ[svc][i].url = Some(<<>>) /\ Present(environ[svc][i].api_key)
    \/ BothPresent(svc, i) /\ Len(environ[svc][i].api_key[1]) < 10

\* the scan reaches an instance it cannot load
LoadingFails ==
    \E svc \in Services : \E i \in ScannedIds : i < Gap(svc) /\ InvalidPair(svc, i)

\* C22: when the scan reaches an instance it cannot load (a URL without its
\* key or the reverse, an empty URL, a key shorter than 10 characters), no
\* client and no registry is ever constructed, for any instance, and no tool
\* call is served in that run.
C22_LoadingIsAllOrNothing ==
    LoadingFails =>
        /\ pc \in {"start", "exited"}
        /\ NothingConstructed
        /\ call = Idle /\ wire = <<>> /\ result = Idle

\* the process exited although another instance of its environment is valid
C22_Witness ==
    /\ pc = "exited"
    /\ LoadingFails
    /\ \E svc \in Services : \E i \in ScannedIds :
          /\ i < Gap(svc)
          /\ BothPresent(svc, i)
          /\ ~InvalidPair(svc, i)
    /\ \E svc \in Services : \E i \in ScannedIds :
          i < Gap(svc) /\ BothPresent(svc, i) /\ InvalidPair(svc, i)

\* C23: when no instance of either service is configured, main() prints the
\* configuration error that names the variables to set and returns without
\* serving; a process that serves has at least one instance configured.
C23_NoInstanceAbortsStartup ==
    /\ (pc # "start" /\ ~LoadingFails /\ \A svc \in Services : Configured(svc) = {})
          => /\ pc = "exited"
             /\ stdout = <<"Failed to load configuration: "
                             \o "No Sonarr or Radarr instances configured. "
                             \o "Please set at least one SONARR_URL_1/SONARR_API_KEY_1 "
                             \o "or RADARR_URL_1/RADARR_API_KEY_1 pair.">>
             /\ NothingConstructed
    /\ Serving => \E svc \in Services : Configured(svc) # {}

\* main() returned on an environment that sets variables, none of them for
\* an id the scan reaches
C23_Witness ==
    /\ pc = "exited"
    /\ ~LoadingFails
    /\ \A svc \in Services : Configured(svc) = {}
    /\ \E svc \in Services : \E i \in ScannedIds : BothPresent(svc, i)

----------------------------------------------------------------------------
(* The retry policy and the method, checked under SpecAdapters, where add   *)
(* sends a GET and then a POST                                              *)

\* the retries left to the session when attempt k was sent
BudgetAt(k) ==
    request_max_retries - Cardinality({j \in 1..(k - 1) : wire[j].step = wire[k].step})

\* attempt k was followed by another attempt of the same logical request
Retried(k) ==
    IF k < Len(wire) THEN wire[k + 1].step = wire[k].step
    ELSE pc = "http" /\ req.step = wire[k].step

ClientAt(k) == tools[wire[k].svc][1].clients[wire[k].instance]

\* C24: whatever its method, an attempt is retried exactly when a GET answered
\* the same way with the same budget would be; the session decides the same
\* for POST, PUT and DELETE as for GET; and a creation POST that is over ended
\* as a GET of the same endpoint would have on its last answer.
C24_RetriesIgnoreMethod ==
    \A k \in 1..Len(wire) :
       /\ wire[k].method \in {"GET", "POST"}
       /\ Retried(k) <=>
             AttemptDecision(ClientAt(k).session, "GET", BudgetAt(k), wire[k].reply) = "retry"
       /\ \A method \in {"POST", "PUT", "DELETE"} :
             AttemptDecision(ClientAt(k).session, method, BudgetAt(k), wire[k].reply) =
                AttemptDecision(ClientAt(k).session, "GET", BudgetAt(k), wire[k].reply)
       /\ (wire[k].method = "POST" /\ ~Retried(k)) =>
             /\ Len(outcome) = 2
             /\ outcome[2] =
                   MakeRequestOutcome(ClientAt(k), "GET",
                                      Endpoint("api/v3/" \o Noun(wire[k].svc)),
                                      BudgetAt(k), wire[k].reply)

\* one add whose creation POST reached the backend four times
C24_Witness ==
    /\ pc = "done"
    /\ AddCall
    /\ Cardinality({k \in 1..Len(wire) : wire[k].method = "POST"}) = request_max_retries + 1
    /\ IsNetworkError(outcome[2])

----------------------------------------------------------------------------
(* The log of HTTP records, checked under SpecTransport *)

RequestRecords == SelectSeq(sink, LAMBDA r : r.record = "request")
ResponseRecords == SelectSeq(sink, LAMBDA r : r.record = "response")

\* the attempts sent so far, the one in flight included
AttemptsStarted == Len(wire) + (IF pc = "http" THEN 1 ELSE 0)
\* the attempts a response came back for, whatever its status
ResponsesCompleted == {k \in 1..Len(wire) : wire[k].reply.fault = "none"}

\* C25, as claimed: every HTTP attempt of a logical request, each retry
\* included, has a request record in the log, and every completed response,
\* of a success or of an error status, has a response record.
C25_EveryAttemptAndResponseRecorded ==
    /\ Len(RequestRecords) = AttemptsStarted
    /\ Len(ResponseRecords) = Cardinality(ResponsesCompleted)

----------------------------------------------------------------------------
(* The sleep before each retry, checked under SpecTransport *)

\* the number of attempt k within its logical request
AttemptNo(k) == request_max_retries - BudgetAt(k) + 1

\* attempt k is a retry after an answer that carried a Retry-After header
AfterRetryAfter(k) ==
    k > 1 /\ wire[k - 1].reply.fault = "none" /\ wire[k - 1].reply.retry_after

\* C26, as claimed: the session sleeps backoff_factor * 2^(k-1) before retry
\* k (0.5 s, 1 s, 2 s with the default factor), and a logical request makes
\* at most max_retries attempts.
C26_DelayDoublesFromFactor ==
    /\ \A k \in 1..Len(wire) :
          (AttemptNo(k) > 1 /\ ~AfterRetryAfter(k)) =>
              wire[k].slept.backoff = request_backoff_factor * 2 ^ (AttemptNo(k) - 2)
    /\ Len(wire) <= request_max_retries

\* C26, amended: the session does not sleep before the first retry; before
\* retry k >= 2 it sleeps backoff_factor * 2^(k-1) (1 s and 2 s with the
\* default factor), unless the answer retried carried a Retry-After header,
\* which is slept for instead; a logical request makes at most max_retries
\* retries, max_retries + 1 attempts.
C26_BackoffFromSecondRetry ==
    /\ \A k \in 1..Len(wire) :
          /\ AttemptNo(k) \in 1..(request_max_retries + 1)
          /\ AttemptNo(k) = 1 => wire[k].slept = [cause |-> "none", backoff |-> 0]
          /\ (AttemptNo(k) > 1 /\ AfterRetryAfter(k)) =>
                wire[k].slept = [cause |-> "retry_after", backoff |-> 0]
          /\ (AttemptNo(k) = 2 /\ ~AfterRetryAfter(k)) =>
                wire[k].slept = [cause |-> "backoff", backoff |-> 0]
          /\ (AttemptNo(k) > 2 /\ ~AfterRetryAfter(k)) =>
                wire[k].slept =
                   [cause |-> "backoff",
                    backoff |-> request_backoff_factor * 2 ^ (AttemptNo(k) - 2)]
    /\ Len(wire) <= request_max_retries + 1

\* a request retried three times: no sleep, then 1 s, then 2 s
C26_Witness ==
    /\ Len(wire) = request_max_retries + 1
    /\ wire[2].slept.backoff = 0
    /\ wire[3].slept.backoff = 1000
    /\ wire[4].slept.backoff = 2000
    /\ \A k \in 1..Len(wire) : wire[k].reply.status_code = 503

----------------------------------------------------------------------------
(* The payload of the creation POST, checked under SpecAdapters *)

\* the first lookup result as the backend sent it
FirstLookupResult ==
    IF IsList(outcome[1].value) THEN outcome[1].value.v[1] ELSE outcome[1].value

\* the monitoring option of the caller, with the default of call_tool
MonitorOption ==
    ArgGet(call.arguments, "monitor",
           IF CallService = "sonarr" THEN JText("all") ELSE JBool(TRUE))

\* the images of the payload are the image records of the lookup result
SendsCanonicalImages(payload) ==
    payload.v["images"] = DictGet(FirstLookupResult, "images", EmptyList)

\* the monitored flag is off exactly when the caller asked for no monitoring
MonitoredReflectsOption(payload) ==
    payload.v["monitored"] =
        JBool(~ \/ MonitorOption.t = "bool" /\ ~MonitorOption.v
                \/ MonitorOption.t = "str" /\ MonitorOption.v = <<"none">>)

\* C27, as claimed: the creation POST carries title, titleSlug and images
\* (and year for a movie, seasons for a series) of the first lookup result
\* with the caller's quality profile id, root folder path and monitoring
\* option; the images are the backend's own image records and the monitored
\* flag reflects the caller's monitoring option.
C27_PayloadMergesLookupAndOptions ==
    \A k \in 1..Len(wire) :
       (AddCall /\ wire[k].method = "POST") =>
          LET payload == wire[k].json_data IN
          /\ payload.v["title"] = DictGet(FirstLookupResult, "title", JNull)
          /\ payload.v["titleSlug"] = DictGet(FirstLookupResult, "titleSlug", JNull)
          /\ IF CallService = "sonarr"
             THEN payload.v["seasons"] = DictGet(FirstLookupResult, "seasons", EmptyList)
             ELSE payload.v["year"] = DictGet(FirstLookupResult, "year", JNull)
          /\ payload.v["qualityProfileId"] = call.arguments["quality_profile_id"]
          /\ payload.v["rootFolderPath"] = call.arguments["root_folder_path"]
          /\ SendsCanonicalImages(payload)
          /\ MonitoredReflectsOption(payload)

----------------------------------------------------------------------------
(* Cancellation, checked under SpecCancel *)

\* C28, as claimed: once the calling protocol has cancelled an invocation
\* whose request is being retried, the attempt in flight may still be
\* answered, but no further HTTP attempt of that invocation is started.
C28_NoAttemptAfterCancellation ==
    cancelled # None =>
        /\ Len(wire) <= cancelled[1] + 1
        /\ Len(wire) = cancelled[1] + 1 => pc # "http"

----------------------------------------------------------------------------
(* Concurrent invocations, checked under SpecConcurrent *)

ServiceOf(name) == (CHOOSE x \in Declared(name) : TRUE)[1]
OpOf(name) == (CHOOSE x \in Declared(name) : TRUE)[2]

\* the instance a call names, the smallest registered one when it names none
OwnInstance(c) ==
    IF "instance_id" \in DOMAIN c.arguments THEN c.arguments["instance_id"].v
    ELSE MinimumRegistered(ServiceOf(c.name))

\* the path the one request of each tool of SpecConcurrent asks for
OwnPath(c) ==
    CASE OpOf(c.name) = "get_root_folders" -> "/api/v3/rootfolder"
      [] OpOf(c.name) = "list" -> "/api/v3/" \o Noun(ServiceOf(c.name))

\* every attempt of the call went to the backend of the call's own instance,
\* with the credentials of that instance
OwnBackendOnly(c, w) ==
    \A k \in 1..Len(w) :
       /\ w[k].svc = ServiceOf(c.name)
       /\ w[k].instance = OwnInstance(c)
       /\ w[k].url = BaseUrlOf(ServiceOf(c.name), OwnInstance(c)) \o OwnPath(c)
       /\ w[k].api_key = EnvApiKey(ServiceOf(c.name), OwnInstance(c))

\* the text the call returns, from its own arguments and the answers to its
\* own attempts alone: the last answer decides, after the retries before it
OwnResult(c, w) ==
    LET svc == ServiceOf(c.name)
        client == BaseArrClient(<<BaseUrlOf(svc, OwnInstance(c))>>,
                                EnvApiKey(svc, OwnInstance(c)),
                                request_timeout, request_max_retries,
                                request_backoff_factor)
        out == MakeRequestOutcome(client, "GET", <<OwnPath(c)>>,
                                  request_max_retries - (Len(w) - 1), w[Len(w)].reply)
    IN AfterRequest(svc, OpOf(c.name), 1, c.arguments, client, out).result

\* C29: in every order in which the event loop serves a batch of concurrent
\* invocations, each invocation sends its requests only to the backend of the
\* instance resolved for its own call, and the text it returns is the one its
\* own arguments and the answers to its own attempts determine, whatever the
\* other invocation was, did or returned; the registries are not written.
C29_InvocationsAreIndependent ==
    /\ tools = MainTools(config)
    /\ pc # "idle" => OwnBackendOnly(call, wire)
    /\ \A n \in 1..Len(finished) :
          /\ finished[n].wire # <<>>
          /\ OwnBackendOnly(finished[n].call, finished[n].wire)
          /\ finished[n].result = OwnResult(finished[n].call, finished[n].wire)

\* two calls to different instances of one service, returned in the order
\* opposite to their ids, the first after retries and with another answer
C29_Witness ==
    /\ Len(finished) = 2
    /\ finished[1].call.id = 2
    /\ finished[2].call.id = 1
    /\ ServiceOf(finished[1].call.name) = ServiceOf(finished[2].call.name)
    /\ OwnInstance(finished[1].call) # OwnInstance(finished[2].call)
    /\ Len(finished[1].wire) > 1
    /\ finished[1].result # finished[2].result

----------------------------------------------------------------------------
(* Termination, checked under SpecTermination *)

\* the attempts made so far for the logical request that attempt k belongs to
AttemptsOfRequest(k) == Cardinality({j \in 1..Len(wire) : wire[j].step = wire[k].step})

BoundedAttempts == \A k \in 1..Len(wire) : AttemptsOfRequest(k) <= request_max_retries + 1

\* call_tool holds one text: the serialized value or the reported failure
OneTextResult == pc = "done" /\ result # Idle /\ result.kind \in {"json", "text"}

\* C30: a logical request makes at most request_max_retries + 1 attempts, and,
\* every attempt ending with a response or a failure, an invocation that has
\* a request in flight eventually reaches the point where call_tool holds
\* exactly one text, the serialized success result or a reported failure,
\* from where it returns it; this for every way the backend answers.
C30_EveryInvocationTerminates ==
    /\ [](BoundedAttempts /\ (pc = "done" => OneTextResult))
    /\ (pc = "http") ~> OneTextResult
    /\ (pc = "done") ~> (pc = "idle")

\* an add that spent the whole budget twice: the lookup answered at its last
\* attempt, the creation never did, and the failure is reported as a text
C30_Witness ==
    /\ OneTextResult
    /\ result.kind = "text"
    /\ Len(wire) = 2 * (request_max_retries + 1)
    /\ \A k \in 1..Len(wire) : AttemptsOfRequest(k) = request_max_retries + 1

====
